---------------------------- MODULE Spec2Model ----------------------------
(***************************************************************************)
(* Model of the gettext conversion and merge engine:                       *)
(*   src/src/converters/po_merger.rs     merge_po_files                    *)
(*   src/src/converters/po_converter.rs  PoConverter::convert_po_to_mo     *)
(*   src/src/converters/mo_converter.rs  MoConverter::convert_mo_to_po     *)
(* Strings and files are sequences of bytes (Rust String = UTF-8 bytes).   *)
(***************************************************************************)
EXTENDS Integers, Sequences, FiniteSets, TLC

(***************************************************************************)
(* Bytes that the code names in character and string literals.             *)
(***************************************************************************)
cTAB    == 9
cLF     == 10
cCR     == 13
cSPACE  == 32
cQUOTE  == 34
cHASH   == 35
cBSLASH == 92
cEOT    == 4
cLower_n == 110
cLower_r == 114
cLower_t == 116

kw_msgctxt == <<109, 115, 103, 99, 116, 120, 116, 32>>    \* "msgctxt "
kw_msgid   == <<109, 115, 103, 105, 100, 32>>             \* "msgid "
kw_msgstr  == <<109, 115, 103, 115, 116, 114, 32>>        \* "msgstr "
key_msgctxt == <<109, 115, 103, 99, 116, 120, 116>>       \* "msgctxt"
key_msgid   == <<109, 115, 103, 105, 100>>                \* "msgid"
key_msgstr  == <<109, 115, 103, 115, 116, 114>>           \* "msgstr"
str_fuzzy  == <<102, 117, 122, 122, 121>>                 \* "fuzzy"

(***************************************************************************)
(* Rust's str operations, on byte sequences.                               *)
(***************************************************************************)
MinOf(S) == CHOOSE x \in S : \A y \in S : x <= y
MaxOf(S) == CHOOSE x \in S : \A y \in S : x >= y

starts_with(s, p) == Len(s) >= Len(p) /\ SubSeq(s, 1, Len(p)) = p
ends_with(s, p)   == Len(s) >= Len(p) /\ SubSeq(s, Len(s) - Len(p) + 1, Len(s)) = p
contains(s, p)    == \E i \in 1..(Len(s) - Len(p) + 1) : SubSeq(s, i, i + Len(p) - 1) = p
contains_char(s, c) == \E i \in 1..Len(s) : s[i] = c

\* char::is_whitespace on the ASCII range
is_whitespace(c) == c \in {9, 10, 11, 12, 13, 32}

\* str::trim
trim(s) ==
    LET keep == {i \in 1..Len(s) : ~is_whitespace(s[i])}
    IN  IF keep = {} THEN <<>> ELSE SubSeq(s, MinOf(keep), MaxOf(keep))

\* The strings of a sequence, joined (the sequence is halved)
RECURSIVE concat(_)
concat(ss) ==
    IF ss = <<>> THEN <<>>
    ELSE IF Len(ss) = 1 THEN ss[1]
    ELSE LET mid == Len(ss) \div 2
         IN  concat(SubSeq(ss, 1, mid)) \o concat(SubSeq(ss, mid + 1, Len(ss)))

\* str::split(c): the segments between the occurrences of c.  The string is
\* halved: the last segment of the left half and the first segment of the
\* right half are one segment of the whole.
RECURSIVE split(_, _)
split(s, c) ==
    IF Len(s) = 0 THEN << <<>> >>
    ELSE IF Len(s) = 1 THEN (IF s[1] = c THEN << <<>>, <<>> >> ELSE <<s>>)
    ELSE LET mid   == Len(s) \div 2
             left  == split(SubSeq(s, 1, mid), c)
             right == split(SubSeq(s, mid + 1, Len(s)), c)
         IN  SubSeq(left, 1, Len(left) - 1)
             \o <<left[Len(left)] \o right[1]>>
             \o SubSeq(right, 2, Len(right))

\* str::replace(c, r) for a one-character pattern
replace(s, c, r) ==
    concat([i \in 1..Len(s) |-> IF s[i] = c THEN r ELSE <<s[i]>>])

\* str::lines and BufRead::lines: split at LF, drop one CR before it, and
\* yield no empty last line after a final LF
lines(s) ==
    LET segs  == split(s, cLF)
        kept  == IF segs[Len(segs)] = <<>> THEN SubSeq(segs, 1, Len(segs) - 1) ELSE segs
        strip(l) == IF l # <<>> /\ l[Len(l)] = cCR THEN SubSeq(l, 1, Len(l) - 1) ELSE l
    IN  [i \in 1..Len(kept) |-> strip(kept[i])]

\* writeln!(f, "{}", l): the line and a line feed
writeln(l) == l \o <<cLF>>

\* String comparison (Ord for str): lexicographic on bytes
str_less(a, b) ==
    LET n    == IF Len(a) < Len(b) THEN Len(a) ELSE Len(b)
        diff == {i \in 1..n : a[i] # b[i]}
    IN  IF diff = {} THEN Len(a) < Len(b)
        ELSE a[MinOf(diff)] < b[MinOf(diff)]

str_le(a, b) == a = b \/ str_less(a, b)

\* Option<String>
None    == [some |-> FALSE, val |-> <<>>]
Some(s) == [some |-> TRUE, val |-> s]


(***************************************************************************)
(* po_merger.rs: strings                                                   *)
(***************************************************************************)
\* A Result<String, String>; Panic is the abnormal end of a slice whose start
\* lies past its end.
Ok(v)  == [tag |-> "Ok", val |-> v]
Err    == [tag |-> "Err", val |-> <<>>]
Panic  == [tag |-> "Panic", val |-> <<>>]

\* An escape that leaves the backslash alone (for a mutation check)
escape_po_string_no_backslash(s) ==
    replace(replace(replace(replace(s,
        cQUOTE,  <<cBSLASH, cQUOTE>>),
        cLF,     <<cBSLASH, cLower_n>>),
        cCR,     <<cBSLASH, cLower_r>>),
        cTAB,    <<cBSLASH, cLower_t>>)

escape_po_string(s) ==
    replace(replace(replace(replace(replace(s,
        cBSLASH, <<cBSLASH, cBSLASH>>),
        cQUOTE,  <<cBSLASH, cQUOTE>>),
        cLF,     <<cBSLASH, cLower_n>>),
        cCR,     <<cBSLASH, cLower_r>>),
        cTAB,    <<cBSLASH, cLower_t>>)

\* The positions at which the loop of an unescape function reads the backslash
\* that opens an escape: a backslash with an even number of backslashes
\* directly before it (the character after an opening backslash is read by
\* chars.next() inside the escape and opens nothing)
escape_starts(s) ==
    {i \in 1..Len(s) :
        /\ s[i] = cBSLASH
        /\ LET others == {j \in 1..(i - 1) : s[j] # cBSLASH}
               before == IF others = {} THEN i - 1 ELSE i - 1 - MaxOf(others)
           IN  before % 2 = 0}

unescape_po_string(s) ==
    LET starts == escape_starts(s)
        unescaped(x) == CASE x = cBSLASH  -> <<cBSLASH>>
                          [] x = cQUOTE   -> <<cQUOTE>>
                          [] x = cLower_n -> <<cLF>>
                          [] x = cLower_r -> <<cCR>>
                          [] x = cLower_t -> <<cTAB>>
                          [] OTHER        -> <<x>>
    IN  concat([i \in 1..Len(s) |->
                  IF i \in starts
                  THEN (IF i = Len(s) THEN <<cBSLASH>> ELSE unescaped(s[i + 1]))
                  ELSE IF (i - 1) \in starts THEN <<>>
                  ELSE <<s[i]>>])

parse_po_string(s) ==
    IF ~starts_with(s, <<cQUOTE>>) \/ ~ends_with(s, <<cQUOTE>>) THEN Err
    ELSE IF Len(s) - 1 < 1 THEN Panic          \* &s[1..s.len()-1] with len 1
    ELSE Ok(unescape_po_string(SubSeq(s, 2, Len(s) - 1)))

\* The bytes write_po_string appends to the output for one field
write_po_string(key, value) ==
    IF contains_char(value, cLF)
    THEN LET segs == split(value, cLF)
         IN  writeln(key \o <<cSPACE, cQUOTE, cQUOTE>>)
             \o concat([i \in 1..Len(segs) |->
                   writeln(<<cQUOTE>> \o escape_po_string(segs[i])
                           \o <<cBSLASH, cLower_n, cQUOTE>>)])
    ELSE writeln(key \o <<cSPACE, cQUOTE>> \o escape_po_string(value) \o <<cQUOTE>>)

(***************************************************************************)
(* po_merger.rs: PoEntry and store_entry                                   *)
(***************************************************************************)
PoEntry_default ==
    [msgctxt |-> None, msgid |-> <<>>, msgstr |-> <<>>, comments |-> <<>>,
     is_fuzzy |-> FALSE, line_number |-> 0, source_file |-> <<>>]

\* Mutant: the map is keyed by msgid alone
entry_key_msgid_only(e) == <<None, e.msgid>>

\* The key of the HashMap<(Option<String>, String), PoEntry>
entry_key(e) == <<e.msgctxt, e.msgid>>

\* HashMap::insert: the value stored for the key is replaced
hashmap_insert(map, entry) ==
    {e \in map : entry_key(e) # entry_key(entry)} \cup {entry}

\* Mutant: the ignore_main_entries test of line 234 is left out
store_entry_no_ignore(map, entry, fidx, ignore_main, first_name) ==
    LET same == {e \in map : e.msgctxt = entry.msgctxt /\ e.msgid = entry.msgid}
    IN  IF same # {}
        THEN LET existing == CHOOSE e \in same : TRUE
             IN  IF fidx = 0 \/ ~existing.is_fuzzy
                 THEN (map \ same) \cup {entry}
                 ELSE map
        ELSE map \cup {entry}

\* Mutant: line 239 tests existing.is_fuzzy instead of !existing.is_fuzzy
store_entry_fuzzy_replaced(map, entry, fidx, ignore_main, first_name) ==
    LET same == {e \in map : e.msgctxt = entry.msgctxt /\ e.msgid = entry.msgid}
    IN  IF same # {}
        THEN LET existing == CHOOSE e \in same : TRUE
             IN  IF ignore_main /\ existing.source_file = first_name
                 THEN map
                 ELSE IF fidx = 0 \/ existing.is_fuzzy
                      THEN (map \ same) \cup {entry}
                      ELSE map
        ELSE map \cup {entry}

store_entry(map, entry, fidx, ignore_main, first_name) ==
    LET same == {e \in map : entry_key(e) = entry_key(entry)}
    IN  IF same # {}
        THEN LET existing == CHOOSE e \in same : TRUE
             IN  IF ignore_main /\ existing.source_file = first_name
                 THEN map
                 ELSE IF fidx = 0 \/ ~existing.is_fuzzy
                      THEN hashmap_insert(map, entry)
                      ELSE map
        ELSE hashmap_insert(map, entry)

\* Mutant: the comparator orders b.msgid before a.msgid
merge_cmp_descending(a, b) ==
    IF a.msgid = <<>> THEN TRUE
    ELSE IF b.msgid = <<>> THEN FALSE
    ELSE str_le(b.msgid, a.msgid)

\* The comparator of sorted_entries.sort_by: TRUE when a may precede b
merge_cmp_le(a, b) ==
    IF a.msgid = <<>> THEN TRUE
    ELSE IF b.msgid = <<>> THEN FALSE
    ELSE str_le(a.msgid, b.msgid)

\* entries.values() in any iteration order, stably sorted: every sequence of
\* all the values that the comparator leaves in order
RECURSIVE sorted_orders(_)
sorted_orders(S) ==
    IF S = {} THEN {<<>>}
    ELSE UNION { { <<m>> \o t : t \in sorted_orders(S \ {m}) } :
                 m \in {x \in S : \A y \in S : merge_cmp_le(x, y)} }

\* The bytes written for one entry (comments, msgctxt, msgid, msgstr, blank)
write_entry(e) ==
    concat([i \in 1..Len(e.comments) |-> writeln(e.comments[i])])
    \o (IF e.msgctxt.some THEN write_po_string(key_msgctxt, e.msgctxt.val) ELSE <<>>)
    \o write_po_string(key_msgid, e.msgid)
    \o write_po_string(key_msgstr, e.msgstr)
    \o writeln(<<>>)

write_header(has, hdr) ==
    IF has
    THEN writeln(key_msgid \o <<cSPACE, cQUOTE, cQUOTE>>) \o writeln(hdr) \o writeln(<<>>)
    ELSE <<>>

\* The loop without the test of the last entry at the end of the file (for
\* a mutation check)
RECURSIVE validate_loop_no_last(_, _, _, _)
validate_loop_no_last(ls, in_entry, has_msgid, has_msgstr) ==
    IF ls = <<>> THEN "Ok"
    ELSE LET trimmed == trim(Head(ls))
         IN  IF trimmed = <<>>
             THEN IF in_entry
                  THEN IF ~has_msgid \/ ~has_msgstr THEN "Err"
                       ELSE validate_loop_no_last(Tail(ls), FALSE, FALSE, FALSE)
                  ELSE validate_loop_no_last(Tail(ls), in_entry, has_msgid, has_msgstr)
             ELSE IF starts_with(trimmed, kw_msgid)
                  THEN validate_loop_no_last(Tail(ls), TRUE, TRUE, has_msgstr)
             ELSE IF starts_with(trimmed, kw_msgstr)
                  THEN IF ~has_msgid THEN "Err"
                       ELSE validate_loop_no_last(Tail(ls), in_entry, has_msgid, TRUE)
             ELSE validate_loop_no_last(Tail(ls), in_entry, has_msgid, has_msgstr)

RECURSIVE validate_loop(_, _, _, _)
validate_loop(ls, in_entry, has_msgid, has_msgstr) ==
    IF ls = <<>>
    THEN IF in_entry /\ (~has_msgid \/ ~has_msgstr) THEN "Err" ELSE "Ok"
    ELSE LET trimmed == trim(Head(ls))
         IN  IF trimmed = <<>>
             THEN IF in_entry
                  THEN IF ~has_msgid \/ ~has_msgstr THEN "Err"
                       ELSE validate_loop(Tail(ls), FALSE, FALSE, FALSE)
                  ELSE validate_loop(Tail(ls), in_entry, has_msgid, has_msgstr)
             ELSE IF starts_with(trimmed, kw_msgid)
                  THEN validate_loop(Tail(ls), TRUE, TRUE, has_msgstr)
             ELSE IF starts_with(trimmed, kw_msgstr)
                  THEN IF ~has_msgid THEN "Err"
                       ELSE validate_loop(Tail(ls), in_entry, has_msgid, TRUE)
             ELSE validate_loop(Tail(ls), in_entry, has_msgid, has_msgstr)

validate_po_file(data) == validate_loop(lines(data), FALSE, FALSE, FALSE)

(***************************************************************************)
(* po_converter.rs: PoConverter                                            *)
(***************************************************************************)
CHUNK_SIZE == 100

\* A u32 is [hi, lo], its two 16-bit halves: the value is hi * 2^16 + lo
U16_MODULUS == 65536

\* n as u32, for 0 <= n < 2^31
u32(n) == [hi |-> (n \div U16_MODULUS) % U16_MODULUS, lo |-> n % U16_MODULUS]

\* Another magic number (for a mutation check)
MAGIC_NUMBER_zero == u32(0)

MO_HEADER_SIZE == u32(28)
MAGIC_NUMBER   == [hi |-> 38148, lo |-> 4830]        \* 0x9504_12DE

\* a + b on u32: the wrapped sum, and whether the sum overflows
wrapping_add(a, b) ==
    [hi |-> (a.hi + b.hi + (a.lo + b.lo) \div U16_MODULUS) % U16_MODULUS,
     lo |-> (a.lo + b.lo) % U16_MODULUS]

add_overflows(a, b) == a.hi + b.hi + (a.lo + b.lo) \div U16_MODULUS >= U16_MODULUS

\* a * k on u32, for a small k
wrapping_mul(a, k) ==
    [hi |-> (a.hi * k + (a.lo * k) \div U16_MODULUS) % U16_MODULUS,
     lo |-> (a.lo * k) % U16_MODULUS]

mul_overflows(a, k) == a.hi * k + (a.lo * k) \div U16_MODULUS >= U16_MODULUS

u32_less(a, b) == a.hi < b.hi \/ (a.hi = b.hi /\ a.lo < b.lo)

\* x as usize, for x < 2^31
as_usize(x) == x.hi * U16_MODULUS + x.lo

\* x as usize + k > n, for a length n < 2^30 and a small k
usize_exceeds(x, k, n) == x.hi >= 16384 \/ as_usize(x) + k > n

\* "Content-Type: text/plain; charset=UTF-8\nContent-Transfer-Encoding: 8bit\n"
PoConverter_default_header ==
    <<67, 111, 110, 116, 101, 110, 116, 45, 84, 121, 112, 101, 58, 32, 116, 101, 120,
      116, 47, 112, 108, 97, 105, 110, 59, 32, 99, 104, 97, 114, 115, 101, 116, 61, 85,
      84, 70, 45, 56, 10, 67, 111, 110, 116, 101, 110, 116, 45, 84, 114, 97, 110, 115,
      102, 101, 114, 45, 69, 110, 99, 111, 100, 105, 110, 103, 58, 32, 56, 98, 105, 116,
      10>>

\* The PoEntry of po_converter.rs: msgid and msgstr only
PoConverter_PoEntry_default == [msgid |-> <<>>, msgstr |-> <<>>]

PoConverter_unescape_po_string(s) ==
    LET starts == escape_starts(s)
        unescaped(x) == CASE x = cLower_n -> <<cLF>>
                          [] x = cLower_r -> <<cCR>>
                          [] x = cLower_t -> <<cTAB>>
                          [] x = cBSLASH  -> <<cBSLASH>>
                          [] x = cQUOTE   -> <<cQUOTE>>
                          [] OTHER        -> <<cBSLASH, x>>
    IN  concat([i \in 1..Len(s) |->
                  IF i \in starts /\ i < Len(s) THEN unescaped(s[i + 1])
                  ELSE IF (i - 1) \in starts THEN <<>>
                  ELSE <<s[i]>>])

\* str::trim_start_matches(prefix): the prefix is removed as often as it repeats
RECURSIVE trim_start_matches(_, _)
trim_start_matches(s, prefix) ==
    IF prefix # <<>> /\ starts_with(s, prefix)
    THEN trim_start_matches(SubSeq(s, Len(prefix) + 1, Len(s)), prefix)
    ELSE s

PoConverter_extract_string_line(line) ==
    IF starts_with(line, <<cQUOTE>>) /\ ends_with(line, <<cQUOTE>>) /\ Len(line) >= 2
    THEN PoConverter_unescape_po_string(SubSeq(line, 2, Len(line) - 1))
    ELSE <<>>

PoConverter_extract_content(line, prefix) ==
    PoConverter_extract_string_line(trim(trim_start_matches(line, prefix)))

\* HashMap<String, PoEntry>::insert, the map as the set of its values
PoConverter_insert(map, entry) ==
    {e \in map : e.msgid # entry.msgid} \cup {entry}

\* Lines 63-95: one line of a chunk.  The task is the closure's local state;
\* the result is the task and the map after the line.
PoConverter_chunk_line(task, map, raw) ==
    LET line == trim(raw)
        cur  == task.current_entry
    IN  IF line = <<>> \/ starts_with(line, <<cHASH>>)
        THEN [task |-> [task EXCEPT !.current_entry = PoConverter_PoEntry_default,
                                    !.reading_msgid = FALSE,
                                    !.reading_msgstr = FALSE],
              map  |-> IF cur.msgid # <<>> THEN PoConverter_insert(map, cur) ELSE map]
        ELSE IF starts_with(line, kw_msgid)
        THEN [task |-> [task EXCEPT
                          !.current_entry.msgid = PoConverter_extract_content(line, kw_msgid),
                          !.reading_msgid = TRUE,
                          !.reading_msgstr = FALSE],
              map  |-> map]
        ELSE IF starts_with(line, kw_msgstr)
        THEN [task |-> [task EXCEPT
                          !.current_entry.msgstr = PoConverter_extract_content(line, kw_msgstr),
                          !.reading_msgid = FALSE,
                          !.reading_msgstr = TRUE],
              map  |-> map]
        ELSE IF starts_with(line, <<cQUOTE>>) /\ ends_with(line, <<cQUOTE>>)
        THEN LET content == PoConverter_extract_string_line(line)
             IN  [task |-> IF task.reading_msgid
                           THEN [task EXCEPT !.current_entry.msgid = cur.msgid \o content]
                           ELSE IF task.reading_msgstr
                           THEN [task EXCEPT !.current_entry.msgstr = cur.msgstr \o content]
                           ELSE task,
                  map  |-> map]
        ELSE [task |-> task, map |-> map]

\* Lines 97-100: the entry left at the end of the chunk
PoConverter_chunk_end(task, map) ==
    IF task.current_entry.msgid # <<>>
    THEN PoConverter_insert(map, task.current_entry)
    ELSE map

\* Lines 103-120: the map, with the built-in header when it holds no key ""
PoConverter_with_header(map) ==
    IF \A e \in map : e.msgid # <<>>
    THEN map \cup {[msgid |-> <<>>, msgstr |-> PoConverter_default_header]}
    ELSE map

\* Lines 26-27: entries.values() sorted by msgid (the keys are distinct)
RECURSIVE PoConverter_sorted_orders(_)
PoConverter_sorted_orders(S) ==
    IF S = {} THEN {<<>>}
    ELSE UNION { { <<m>> \o t : t \in PoConverter_sorted_orders(S \ {m}) } :
                 m \in {x \in S : \A y \in S : str_le(x.msgid, y.msgid)} }

\* A comparator that orders by msgid descending (for a mutation check)
mo_cmp_descending(a, b) == str_le(b.msgid, a.msgid)

\* Lines 189-197: the comparator of write_mo_file's sort
mo_cmp_le(a, b) ==
    IF a.msgid = <<>> THEN TRUE
    ELSE IF b.msgid = <<>> THEN FALSE
    ELSE str_le(a.msgid, b.msgid)

\* Vec::sort_by (stable) with that comparator
RECURSIVE mo_insert_sorted(_, _)
mo_insert_sorted(sorted, e) ==
    IF sorted = <<>> THEN <<e>>
    ELSE LET last == sorted[Len(sorted)]
         IN  IF mo_cmp_le(last, e) THEN Append(sorted, e)
             ELSE Append(mo_insert_sorted(SubSeq(sorted, 1, Len(sorted) - 1), e), last)

RECURSIVE mo_sort(_)
mo_sort(es) ==
    IF es = <<>> THEN <<>>
    ELSE mo_insert_sorted(mo_sort(SubSeq(es, 1, Len(es) - 1)), es[Len(es)])

\* u32::to_le_bytes
to_le_bytes(x) == <<x.lo % 256, x.lo \div 256, x.hi % 256, x.hi \div 256>>

\* A layout that does not step over the NUL after a string (for a mutation
\* check)
RECURSIVE mo_layout_no_nul(_, _)
mo_layout_no_nul(es, start) ==
    IF es = <<>> THEN [offsets |-> <<>>, data |-> <<>>, current_offset |-> start]
    ELSE LET e    == Head(es)
             off2 == wrapping_add(start, u32(Len(e.msgid)))
             off3 == wrapping_add(off2, u32(Len(e.msgstr)))
             rest == mo_layout_no_nul(Tail(es), off3)
         IN  [offsets |-> << <<u32(Len(e.msgid)), start>>,
                             <<u32(Len(e.msgstr)), off2>> >> \o rest.offsets,
              data    |-> e.msgid \o <<0>> \o e.msgstr \o <<0>> \o rest.data,
              current_offset |-> rest.current_offset]

\* Lines 199-213: the (length, offset) pairs and the string data; the result
\* is [offsets, data, current_offset].  The sums are u32 sums; one overflows
\* only when the strings together pass 2^32 bytes.
RECURSIVE mo_layout(_, _)
mo_layout(es, start) ==
    IF es = <<>> THEN [offsets |-> <<>>, data |-> <<>>, current_offset |-> start]
    ELSE LET e    == Head(es)
             off2 == wrapping_add(start, wrapping_add(u32(Len(e.msgid)), u32(1)))
             off3 == wrapping_add(off2, wrapping_add(u32(Len(e.msgstr)), u32(1)))
             rest == mo_layout(Tail(es), off3)
         IN  [offsets |-> << <<u32(Len(e.msgid)), start>>,
                             <<u32(Len(e.msgstr)), off2>> >> \o rest.offsets,
              data    |-> e.msgid \o <<0>> \o e.msgstr \o <<0>> \o rest.data,
              current_offset |-> rest.current_offset]

\* Lines 169-242: the bytes write_mo_file writes
PoConverter_write_mo_file(es) ==
    LET num_strings              == u32(Len(es))
        original_table_offset    == MO_HEADER_SIZE
        translation_table_offset == wrapping_add(original_table_offset,
                                                 wrapping_mul(num_strings, 8))
        string_start_offset      == wrapping_add(translation_table_offset,
                                                 wrapping_mul(num_strings, 8))
        sorted_entries           == mo_sort(es)
        lay                      == mo_layout(sorted_entries, string_start_offset)
        pair(p)                  == to_le_bytes(p[1]) \o to_le_bytes(p[2])
    IN  to_le_bytes(MAGIC_NUMBER) \o to_le_bytes(u32(0)) \o to_le_bytes(num_strings)
        \o to_le_bytes(original_table_offset) \o to_le_bytes(translation_table_offset)
        \o to_le_bytes(u32(0)) \o to_le_bytes(u32(0))
        \o concat([i \in 1..Len(es) |-> pair(lay.offsets[2 * i - 1])])
        \o concat([i \in 1..Len(es) |-> pair(lay.offsets[2 * i])])
        \o lay.data

(***************************************************************************)
(* mo_converter.rs: MoConverter                                            *)
(***************************************************************************)
MIN_MO_LEN      == 20
LONG_STRING_LEN == 80

\* u32::from_le_bytes(buffer[off..off + 4]), off counted from 0
from_le_bytes(buffer, off) ==
    [hi |-> buffer[off + 3] + 256 * buffer[off + 4],
     lo |-> buffer[off + 1] + 256 * buffer[off + 2]]

\* buffer[from..to], both counted from 0
slice(buffer, from, to) == SubSeq(buffer, from + 1, to)

is_cont(b) == b >= 128 /\ b <= 191

\* String::from_utf8 succeeds
\* The number of bytes of the sequence that the lead byte x opens (0: x is no
\* lead byte)
utf8_width(x) ==
    IF x < 128 THEN 1
    ELSE IF x >= 194 /\ x <= 223 THEN 2
    ELSE IF x >= 224 /\ x <= 239 THEN 3
    ELSE IF x >= 240 /\ x <= 244 THEN 4
    ELSE 0

\* String::from_utf8 succeeds: every byte that is no continuation byte opens
\* a complete sequence, and every continuation byte lies in the sequence of
\* a lead byte before it
valid_utf8(b) ==
    \A i \in 1..Len(b) :
        LET x == b[i]
        IN  IF is_cont(x)
            THEN \E j \in 1..(i - 1) : ~is_cont(b[j]) /\ i - j < utf8_width(b[j])
            ELSE /\ utf8_width(x) > 0
                 /\ i + utf8_width(x) - 1 <= Len(b)
                 /\ \A k \in (i + 1)..(i + utf8_width(x) - 1) : is_cont(b[k])
                 /\ (x = 224 => b[i + 1] >= 160)
                 /\ (x = 237 => b[i + 1] <= 159)
                 /\ (x = 240 => b[i + 1] >= 144)
                 /\ (x = 244 => b[i + 1] <= 143)

\* Lines 70-75: the context is what precedes the first 0x04
split_context(orig) ==
    LET at == {i \in 1..Len(orig) : orig[i] = cEOT}
    IN  IF at # {}
        THEN [msgctxt |-> Some(SubSeq(orig, 1, MinOf(at) - 1)),
              orig_text |-> SubSeq(orig, MinOf(at) + 1, Len(orig))]
        ELSE [msgctxt |-> None, orig_text |-> orig]

\* Lines 47-83: the closure for index i.  checked is the build's overflow
\* checking: an overflowing u32 operation panics with it and wraps without.
MoConverter_decode_entry(buffer, original_table_offset, translation_table_offset, i, checked) ==
    LET i8           == wrapping_mul(u32(i), 8)
        orig_offset  == wrapping_add(original_table_offset, i8)
        trans_offset == wrapping_add(translation_table_offset, i8)
    IN  IF checked /\ (\/ mul_overflows(u32(i), 8)
                       \/ add_overflows(original_table_offset, i8)
                       \/ add_overflows(translation_table_offset, i8))
        THEN Panic
        ELSE IF \/ usize_exceeds(orig_offset, 8, Len(buffer))
                \/ usize_exceeds(trans_offset, 8, Len(buffer))
        THEN Err
        ELSE LET orig_len         == from_le_bytes(buffer, as_usize(orig_offset))
                 orig_str_offset  == from_le_bytes(buffer, as_usize(orig_offset) + 4)
                 trans_len        == from_le_bytes(buffer, as_usize(trans_offset))
                 trans_str_offset == from_le_bytes(buffer, as_usize(trans_offset) + 4)
                 orig_end         == wrapping_add(orig_str_offset, orig_len)
                 trans_end        == wrapping_add(trans_str_offset, trans_len)
             IN  IF checked /\ add_overflows(orig_str_offset, orig_len) THEN Panic
                 ELSE IF usize_exceeds(orig_end, 0, Len(buffer)) THEN Err
                 ELSE IF checked /\ add_overflows(trans_str_offset, trans_len) THEN Panic
                 ELSE IF usize_exceeds(trans_end, 0, Len(buffer)) THEN Err
                 ELSE IF u32_less(orig_end, orig_str_offset) THEN Panic
                 ELSE LET orig == slice(buffer, as_usize(orig_str_offset),
                                        as_usize(orig_end))
                      IN  IF ~valid_utf8(orig) THEN Err
                          ELSE IF u32_less(trans_end, trans_str_offset) THEN Panic
                          ELSE LET trans == slice(buffer, as_usize(trans_str_offset),
                                                  as_usize(trans_end))
                                   sp    == split_context(orig)
                               IN  IF ~valid_utf8(trans) THEN Err
                                   ELSE Ok([msgctxt    |-> sp.msgctxt,
                                            orig_text  |-> sp.orig_text,
                                            trans_text |-> trans])

MoConverter_escape_po_string(s) ==
    replace(replace(replace(replace(s,
        cBSLASH, <<cBSLASH, cBSLASH>>),
        cQUOTE,  <<cBSLASH, cQUOTE>>),
        cCR,     <<cBSLASH, cLower_r>>),
        cTAB,    <<cBSLASH, cLower_t>>)

\* Lines 140-156: the bytes write_po_string writes for one field
MoConverter_write_po_string(prefix, content) ==
    LET escaped == MoConverter_escape_po_string(content)
    IN  IF contains_char(content, cLF) \/ Len(content) > LONG_STRING_LEN
        THEN writeln(prefix \o <<cSPACE, cQUOTE, cQUOTE>>)
             \o concat([i \in 1..Len(lines(escaped)) |->
                   writeln(<<cQUOTE>> \o lines(escaped)[i] \o <<cBSLASH, cLower_n, cQUOTE>>)])
        ELSE writeln(prefix \o <<cSPACE, cQUOTE>> \o escaped \o <<cQUOTE>>)

\* Lines 85-114: the header block, from the first entry with an empty
\* orig_text, or the standard header
MoConverter_write_header(es) ==
    LET hs == {i \in 1..Len(es) : es[i].orig_text = <<>>}
    IN  writeln(key_msgid \o <<cSPACE, cQUOTE, cQUOTE>>)
        \o writeln(key_msgstr \o <<cSPACE, cQUOTE, cQUOTE>>)
        \o (IF hs # {}
            THEN LET ls == lines(es[MinOf(hs)].trans_text)
                 IN  concat([i \in 1..Len(ls) |->
                        writeln(<<cQUOTE>> \o MoConverter_escape_po_string(ls[i])
                                \o <<cBSLASH, cLower_n, cQUOTE>>)])
            ELSE writeln(<<34, 67, 111, 110, 116, 101, 110, 116, 45, 84, 121, 112, 101,
                           58, 32, 116, 101, 120, 116, 47, 112, 108, 97, 105, 110, 59, 32,
                           99, 104, 97, 114, 115, 101, 116, 61, 85, 84, 70, 45, 56, 92,
                           110, 34>>)
                 \o writeln(<<34, 67, 111, 110, 116, 101, 110, 116, 45, 84, 114, 97, 110,
                              115, 102, 101, 114, 45, 69, 110, 99, 111, 100, 105, 110, 103,
                              58, 32, 56, 98, 105, 116, 92, 110, 34>>)
                 \o writeln(<<34, 80, 108, 117, 114, 97, 108, 45, 70, 111, 114, 109, 115,
                              58, 32, 110, 112, 108, 117, 114, 97, 108, 115, 61, 50, 59,
                              32, 112, 108, 117, 114, 97, 108, 61, 40, 110, 32, 33, 61, 32,
                              49, 41, 59, 92, 110, 34>>))
        \o writeln(<<>>)

\* Lines 116-134: every entry with a non-empty orig_text
MoConverter_write_entry(e) ==
    IF e.orig_text = <<>> THEN <<>>
    ELSE (IF e.msgctxt.some
          THEN MoConverter_write_po_string(key_msgctxt, e.msgctxt.val) ELSE <<>>)
         \o MoConverter_write_po_string(key_msgid, e.orig_text)
         \o MoConverter_write_po_string(key_msgstr, e.trans_text)
         \o writeln(<<>>)

MoConverter_write_po(es) ==
    MoConverter_write_header(es)
    \o concat([i \in 1..Len(es) |-> MoConverter_write_entry(es[i])])

(***************************************************************************)
(* csv_converter.rs: CsvConverter                                          *)
(***************************************************************************)
cCOMMA     == 44
cSEMICOLON == 59
cPIPE      == 124

BOM == <<239, 187, 191>>                                  \* U+FEFF

\* Lines 105-141: the scan over the characters of the line
RECURSIVE csv_scan(_, _, _, _)
csv_scan(s, result, current_field, in_quotes) ==
    IF s = <<>> THEN Append(result, current_field)
    ELSE IF Head(s) = cQUOTE
    THEN IF in_quotes
         THEN IF Len(s) >= 2 /\ s[2] = cQUOTE
              THEN csv_scan(SubSeq(s, 3, Len(s)), result,
                            Append(current_field, cQUOTE), TRUE)
              ELSE csv_scan(Tail(s), result, current_field, FALSE)
         ELSE csv_scan(Tail(s), result, current_field, TRUE)
    ELSE IF Head(s) = cCOMMA
    THEN IF in_quotes
         THEN csv_scan(Tail(s), result, Append(current_field, cCOMMA), TRUE)
         ELSE csv_scan(Tail(s), Append(result, current_field), <<>>, FALSE)
    ELSE csv_scan(Tail(s), result, Append(current_field, Head(s)), in_quotes)

\* Lines 100-159
parse_csv_line(line) ==
    LET result  == csv_scan(line, <<>>, <<>>, FALSE)
        trimmed(fs_) == [k \in 1..Len(fs_) |-> trim(fs_[k])]
    IN  IF Len(result) = 1 /\ contains_char(result[1], cTAB)
        THEN split(result[1], cTAB)
        ELSE IF Len(result) < 2 /\ contains_char(line, cSEMICOLON)
        THEN trimmed(split(line, cSEMICOLON))
        ELSE IF Len(result) < 2 /\ contains_char(line, cPIPE)
        THEN trimmed(split(line, cPIPE))
        ELSE result

\* Lines 162-170: the escaped string between double quotes
CsvConverter_escape_po_string(s) ==
    <<cQUOTE>> \o escape_po_string(s) \o <<cQUOTE>>

\* Lines 59-66: the words that make a row a header row
csv_looks_like_header(entries) ==
    \/ contains(entries[1], <<230, 186, 144, 232, 175, 173, 232, 168, 128>>)  \* 源语言
    \/ contains(entries[1], <<229, 142, 159, 230, 150, 135>>)                 \* 原文
    \/ contains(entries[1], key_msgid)
    \/ contains(entries[1], <<73, 68>>)                                       \* ID
    \/ contains(entries[2], <<231, 191, 187, 232, 175, 145>>)                 \* 翻译
    \/ contains(entries[2], <<231, 155, 174, 230, 160, 135>>)                 \* 目标
    \/ contains(entries[2], <<232, 175, 145, 230, 150, 135>>)                 \* 译文
    \/ contains(entries[2], key_msgstr)

\* A header test that forgets that a header row was skipped (for a mutation
\* check)
csv_skip_every_header(has_header_, entries) == csv_looks_like_header(entries)

\* Line 59: the row is skipped as the header row
csv_skip_as_header(has_header_, entries) ==
    ~has_header_ /\ csv_looks_like_header(entries)

\* Lines 173-191: the header block; date_str is the local time of the run
quoted_header_line(l) == writeln(<<cQUOTE>> \o l \o <<cBSLASH, cLower_n, cQUOTE>>)

write_po_header(date_str) ==
    writeln(key_msgid \o <<cSPACE, cQUOTE, cQUOTE>>)
    \o writeln(key_msgstr \o <<cSPACE, cQUOTE, cQUOTE>>)
    \o quoted_header_line(<<80, 114, 111, 106, 101, 99, 116, 45, 73, 100, 45, 86, 101,
                            114, 115, 105, 111, 110, 58, 32, 66, 76, 77, 77, 32, 67, 111,
                            110, 118, 101, 114, 116, 101, 100, 32, 67, 83, 86>>)
    \o quoted_header_line(<<80, 79, 84, 45, 67, 114, 101, 97, 116, 105, 111, 110, 45, 68,
                            97, 116, 101, 58, 32>> \o date_str)
    \o quoted_header_line(<<80, 79, 45, 82, 101, 118, 105, 115, 105, 111, 110, 45, 68, 97,
                            116, 101, 58, 32>> \o date_str)
    \o quoted_header_line(<<76, 97, 110, 103, 117, 97, 103, 101, 58, 32, 122, 104, 95, 67,
                            78>>)
    \o quoted_header_line(<<77, 73, 77, 69, 45, 86, 101, 114, 115, 105, 111, 110, 58, 32,
                            49, 46, 48>>)
    \o quoted_header_line(<<67, 111, 110, 116, 101, 110, 116, 45, 84, 121, 112, 101, 58,
                            32, 116, 101, 120, 116, 47, 112, 108, 97, 105, 110, 59, 32, 99,
                            104, 97, 114, 115, 101, 116, 61, 85, 84, 70, 45, 56>>)
    \o quoted_header_line(<<67, 111, 110, 116, 101, 110, 116, 45, 84, 114, 97, 110, 115,
                            102, 101, 114, 45, 69, 110, 99, 111, 100, 105, 110, 103, 58, 32,
                            56, 98, 105, 116>>)
    \o quoted_header_line(<<67, 111, 110, 118, 101, 114, 116, 101, 100, 45, 70, 114, 111,
                            109, 45, 67, 83, 86, 58, 32, 116, 114, 117, 101>>)
    \o writeln(<<>>)

\* Lines 81-85: the entry of one row
csv_write_entry(msgid, msgstr) ==
    writeln(kw_msgid \o CsvConverter_escape_po_string(msgid))
    \o writeln(kw_msgstr \o CsvConverter_escape_po_string(msgstr))
    \o writeln(<<>>)

(***************************************************************************)
(* State.  fs is the file system: path -> [exists, data].                  *)
(***************************************************************************)
VARIABLES
    catalogs,             \* the catalogs the input files were written from
    fs,                   \* file system
    pc,                   \* position in the running operation
    input_files,          \* merge_po_files: argument, the ordered paths
    ignore_main_entries,  \* merge_po_files: argument
    entries,              \* merge_po_files: the shared HashMap, as its values
    header,               \* merge_po_files: header
    has_header,           \* merge_po_files: has_header
    file_index,           \* merge_po_files: loop index over input_files
    reader,               \* merge_po_files: the lines not yet read
    current_entry,        \* merge_po_files: current_entry
    state,                \* merge_po_files: ParseState
    line_number,          \* merge_po_files: line_number
    merge_result,         \* merge_po_files: "none" while running, then Ok/Err/Panic
    po_tasks,             \* parse_po_file: the closure's locals, one per chunk
    po_entries,           \* parse_po_file: the HashMap behind the Mutex, as its values
    po_result,            \* convert_po_to_mo: "none" while running, then Ok/Err
    mo_entries,           \* convert_mo_to_po: entries, the decoded Vec<MoEntry>
    mo_result,            \* convert_mo_to_po: "none" while running, then Ok/Err/Panic
    arg,                  \* the argument of a function called on its own
    ret,                  \* what that function returned
    csv                   \* convert_csv_to_po: its locals and its result

merge_vars == <<input_files, ignore_main_entries, entries, header, has_header,
                file_index, reader, current_entry, state, line_number, merge_result>>

conv_vars == <<po_tasks, po_entries, po_result, mo_entries, mo_result>>

fn_vars == <<arg, ret>>

csv_vars == <<csv>>

\* convert_csv_to_po before it is called
CsvIdle == [reader |-> <<>>, is_first_line |-> TRUE, has_header |-> FALSE,
            entries_count |-> 0, result |-> "none"]

vars == <<catalogs, fs, pc, merge_vars, conv_vars, fn_vars, csv_vars>>

NoFile     == [exists |-> FALSE, data |-> <<>>]
FileOf(d)  == [exists |-> TRUE, data |-> d]

\* Path::file_name
file_name(path) == path.name

merged_path == [dir |-> 99, name |-> <<109, 101, 114, 103, 101, 100>>]  \* out/merged
po_in_path  == [dir |-> 90, name |-> <<105, 110, 46, 112, 111>>]         \* in.po
mo_path     == [dir |-> 91, name |-> <<99, 46, 109, 111>>]               \* c.mo
po_out_path == [dir |-> 92, name |-> <<111, 117, 116, 46, 112, 111>>]    \* out.po

first_file_name == file_name(input_files[1])

(***************************************************************************)
(* merge_po_files                                                          *)
(***************************************************************************)
\* Lines 54-83: the empty-list check, then the first file is opened
MergeStart ==
    /\ pc = "merge_start"
    /\ UNCHANGED <<conv_vars, fn_vars, csv_vars>>
    /\ IF input_files = <<>>
       THEN /\ merge_result' = "Err"
            /\ pc' = "done"
            /\ UNCHANGED <<reader, current_entry>>
       ELSE /\ reader' = lines(fs[input_files[1]].data)
            /\ current_entry' = [PoEntry_default EXCEPT
                                   !.source_file = file_name(input_files[1])]
            /\ pc' = "merge_read"
            /\ UNCHANGED merge_result
    /\ UNCHANGED <<catalogs, fs, input_files, ignore_main_entries, entries, header,
                   has_header, file_index, state, line_number>>

\* A failure inside the loop body: the function returns before File::create
MergeFail(how) ==
    /\ merge_result' = how
    /\ pc' = "done"
    /\ reader' = Tail(reader)
    /\ line_number' = line_number + 1
    /\ UNCHANGED <<catalogs, fs, input_files, ignore_main_entries, entries, header,
                   has_header, file_index, current_entry, state>>

\* Lines 123-134: a keyword line sets the state and the field
MergeField(st, field, rest) ==
    LET r == parse_po_string(rest)
    IN  IF r.tag # "Ok" THEN MergeFail(r.tag)
        ELSE /\ state' = st
             /\ current_entry' =
                  IF field = "msgctxt"
                  THEN [current_entry EXCEPT !.msgctxt = Some(r.val)]
                  ELSE IF field = "msgid"
                  THEN [current_entry EXCEPT !.msgid = r.val]
                  ELSE [current_entry EXCEPT !.msgstr = r.val]
             /\ reader' = Tail(reader)
             /\ line_number' = line_number + 1
             /\ UNCHANGED <<catalogs, fs, pc, input_files, ignore_main_entries, entries,
                            header, has_header, file_index, merge_result>>

\* Lines 135-148: a bare quoted string continues the field last opened
MergeContinuation(s) ==
    LET r == parse_po_string(s)
    IN  IF r.tag # "Ok" THEN MergeFail(r.tag)
        ELSE IF state \notin {"MsgCtxt", "MsgId", "MsgStr"} THEN MergeFail("Err")
        ELSE /\ current_entry' =
                  IF state = "MsgCtxt"
                  THEN IF current_entry.msgctxt.some
                       THEN [current_entry EXCEPT
                               !.msgctxt = Some(current_entry.msgctxt.val \o r.val)]
                       ELSE current_entry
                  ELSE IF state = "MsgId"
                  THEN [current_entry EXCEPT !.msgid = current_entry.msgid \o r.val]
                  ELSE [current_entry EXCEPT !.msgstr = current_entry.msgstr \o r.val]
             /\ reader' = Tail(reader)
             /\ line_number' = line_number + 1
             /\ UNCHANGED <<catalogs, fs, pc, input_files, ignore_main_entries, entries,
                            header, has_header, file_index, state, merge_result>>

\* Lines 85-150: one iteration of the loop over the lines of the open file
MergeLine ==
    /\ pc = "merge_read"
    /\ UNCHANGED <<conv_vars, fn_vars, csv_vars>>
    /\ reader # <<>>
    /\ LET trimmed == trim(Head(reader))
           ln      == line_number + 1
       IN  IF trimmed = <<>>
           THEN \* lines 91-112: a blank line ends the entry
                /\ IF current_entry.msgid # <<>>
                   THEN IF file_index = 0 /\ current_entry.msgid = <<cQUOTE, cQUOTE>>
                           /\ ~has_header
                        THEN /\ header' = current_entry.msgstr
                             /\ has_header' = TRUE
                             /\ UNCHANGED entries
                        ELSE /\ entries' = store_entry(entries, current_entry, file_index,
                                               ignore_main_entries, first_file_name)
                             /\ UNCHANGED <<header, has_header>>
                   ELSE UNCHANGED <<entries, header, has_header>>
                /\ current_entry' = [PoEntry_default EXCEPT
                       !.source_file = file_name(input_files[file_index + 1]),
                       !.line_number = ln]
                /\ state' = "None"
                /\ reader' = Tail(reader)
                /\ line_number' = ln
                /\ UNCHANGED <<catalogs, fs, pc, input_files, ignore_main_entries,
                               file_index, merge_result>>
           ELSE IF starts_with(trimmed, <<cHASH>>)
           THEN \* lines 116-122
                /\ state' = "Comment"
                /\ current_entry' = [current_entry EXCEPT
                       !.comments = Append(current_entry.comments, trimmed),
                       !.is_fuzzy = current_entry.is_fuzzy \/ contains(trimmed, str_fuzzy)]
                /\ reader' = Tail(reader)
                /\ line_number' = ln
                /\ UNCHANGED <<catalogs, fs, pc, input_files, ignore_main_entries, entries,
                               header, has_header, file_index, merge_result>>
           ELSE IF starts_with(trimmed, kw_msgctxt)
           THEN MergeField("MsgCtxt", "msgctxt",
                           SubSeq(trimmed, Len(kw_msgctxt) + 1, Len(trimmed)))
           ELSE IF starts_with(trimmed, kw_msgid)
           THEN MergeField("MsgId", "msgid",
                           SubSeq(trimmed, Len(kw_msgid) + 1, Len(trimmed)))
           ELSE IF starts_with(trimmed, kw_msgstr)
           THEN MergeField("MsgStr", "msgstr",
                           SubSeq(trimmed, Len(kw_msgstr) + 1, Len(trimmed)))
           ELSE IF starts_with(trimmed, <<cQUOTE>>)
           THEN MergeContinuation(trimmed)
           ELSE MergeFail("Err")

\* Lines 153-157 and 73-83: the last entry of the file, then the next file
MergeEof ==
    /\ pc = "merge_read"
    /\ UNCHANGED <<conv_vars, fn_vars, csv_vars>>
    /\ reader = <<>>
    /\ entries' = IF current_entry.msgid # <<>>
                  THEN store_entry(entries, current_entry, file_index,
                                   ignore_main_entries, first_file_name)
                  ELSE entries
    /\ IF file_index + 1 < Len(input_files)
       THEN /\ file_index' = file_index + 1
            /\ reader' = lines(fs[input_files[file_index + 2]].data)
            /\ current_entry' = [PoEntry_default EXCEPT
                                   !.source_file = file_name(input_files[file_index + 2])]
            /\ state' = "None"
            /\ line_number' = 0
            /\ UNCHANGED pc
       ELSE /\ pc' = "merge_write"
            /\ UNCHANGED <<file_index, reader, current_entry, state, line_number>>
    /\ UNCHANGED <<catalogs, fs, input_files, ignore_main_entries, header, has_header,
                   merge_result>>

\* Lines 159-208: the output file is created and written
MergeWrite ==
    /\ pc = "merge_write"
    /\ UNCHANGED <<conv_vars, fn_vars, csv_vars>>
    /\ \E sorted_entries \in sorted_orders(entries) :
          fs' = [fs EXCEPT ![merged_path] = FileOf(
                    write_header(has_header, header)
                    \o concat([i \in 1..Len(sorted_entries) |->
                                  write_entry(sorted_entries[i])]))]
    /\ pc' = "merge_validate"
    /\ UNCHANGED <<catalogs, merge_vars>>

\* Lines 210-213
MergeValidate ==
    /\ pc = "merge_validate"
    /\ UNCHANGED <<conv_vars, fn_vars, csv_vars>>
    /\ merge_result' = validate_po_file(fs[merged_path].data)
    /\ pc' = "done"
    /\ UNCHANGED <<catalogs, fs, input_files, ignore_main_entries, entries, header,
                   has_header, file_index, reader, current_entry, state, line_number>>


(***************************************************************************)
(* convert_po_to_mo                                                        *)
(***************************************************************************)
\* lines.chunks(CHUNK_SIZE)
chunks(ls) ==
    [c \in 1..((Len(ls) + CHUNK_SIZE - 1) \div CHUNK_SIZE) |->
        SubSeq(ls, (c - 1) * CHUNK_SIZE + 1,
               IF c * CHUNK_SIZE < Len(ls) THEN c * CHUNK_SIZE ELSE Len(ls))]

\* Lines 41-58: the file is read and cut into chunks, one task per chunk
PoStart ==
    /\ pc = "po_start"
    /\ UNCHANGED <<fn_vars, csv_vars>>
    /\ IF ~fs[po_in_path].exists
       THEN /\ po_result' = "Err"
            /\ pc' = "done"
            /\ UNCHANGED <<po_tasks, po_entries>>
       ELSE /\ po_tasks' =
                 LET cs == chunks(lines(fs[po_in_path].data))
                 IN  [c \in 1..Len(cs) |->
                        [chunk          |-> cs[c],
                         current_entry  |-> PoConverter_PoEntry_default,
                         reading_msgid  |-> FALSE,
                         reading_msgstr |-> FALSE,
                         finished       |-> FALSE]]
            /\ po_entries' = {}
            /\ pc' = "po_parse"
            /\ UNCHANGED po_result
    /\ UNCHANGED <<catalogs, fs, merge_vars, mo_entries, mo_result>>

\* Lines 58-101: one task of the parallel for_each takes its next line, or
\* ends its chunk
PoChunkStep ==
    /\ pc = "po_parse"
    /\ UNCHANGED <<fn_vars, csv_vars>>
    /\ \E c \in 1..Len(po_tasks) :
          /\ ~po_tasks[c].finished
          /\ IF po_tasks[c].chunk # <<>>
             THEN LET r == PoConverter_chunk_line(po_tasks[c], po_entries,
                                                  Head(po_tasks[c].chunk))
                  IN  /\ po_tasks' = [po_tasks EXCEPT
                             ![c] = [r.task EXCEPT !.chunk = Tail(po_tasks[c].chunk)]]
                      /\ po_entries' = r.map
             ELSE /\ po_tasks' = [po_tasks EXCEPT ![c].finished = TRUE]
                  /\ po_entries' = PoConverter_chunk_end(po_tasks[c], po_entries)
    /\ UNCHANGED <<catalogs, fs, pc, merge_vars, po_result, mo_entries, mo_result>>

\* Lines 103-120 and 25-35: the header is ensured, the entries are sorted and
\* the MO file is created and written
PoFinish ==
    /\ pc = "po_parse"
    /\ UNCHANGED <<fn_vars, csv_vars>>
    /\ \A c \in 1..Len(po_tasks) : po_tasks[c].finished
    /\ \E sorted_entries \in PoConverter_sorted_orders(PoConverter_with_header(po_entries)) :
          fs' = [fs EXCEPT ![mo_path] = FileOf(PoConverter_write_mo_file(sorted_entries))]
    /\ po_result' = "Ok"
    /\ pc' = "po_done"
    /\ UNCHANGED <<catalogs, merge_vars, po_tasks, po_entries, mo_entries, mo_result>>

(***************************************************************************)
(* convert_mo_to_po                                                        *)
(***************************************************************************)
\* Lines 24-83: the file is read, its header checked, the output file created
\* and every entry decoded.  The entries are decoded in parallel: when several
\* of them fail, any of the failures is the one reported.
MoDecode ==
    /\ pc = "mo_start"
    /\ UNCHANGED <<fn_vars, csv_vars>>
    /\ LET buffer == fs[mo_path].data
       IN  IF \/ ~fs[mo_path].exists
              \/ Len(buffer) < MIN_MO_LEN
              \/ from_le_bytes(buffer, 0) # MAGIC_NUMBER
           THEN /\ mo_result' = "Err"
                /\ pc' = "done"
                /\ UNCHANGED <<fs, mo_entries>>
           ELSE \E checked \in BOOLEAN :
                LET num_strings              == as_usize(from_le_bytes(buffer, 8))
                    original_table_offset    == from_le_bytes(buffer, 12)
                    translation_table_offset == from_le_bytes(buffer, 16)
                    rs == [i \in 1..num_strings |->
                             MoConverter_decode_entry(buffer, original_table_offset,
                                 translation_table_offset, i - 1, checked)]
                    failures == {rs[i].tag : i \in 1..num_strings} \ {"Ok"}
                IN  /\ fs' = [fs EXCEPT ![po_out_path] = FileOf(<<>>)]
                    /\ IF failures = {}
                       THEN /\ mo_entries' = [i \in 1..num_strings |-> rs[i].val]
                            /\ pc' = "mo_write"
                            /\ UNCHANGED mo_result
                       ELSE /\ mo_result' \in failures
                            /\ pc' = "done"
                            /\ UNCHANGED mo_entries
    /\ UNCHANGED <<catalogs, merge_vars, po_tasks, po_entries, po_result>>

\* Lines 85-136: the header block and the entries are written
MoWrite ==
    /\ pc = "mo_write"
    /\ UNCHANGED <<fn_vars, csv_vars>>
    /\ fs' = [fs EXCEPT ![po_out_path] = FileOf(MoConverter_write_po(mo_entries))]
    /\ mo_result' = "Ok"
    /\ pc' = "mo_done"
    /\ UNCHANGED <<catalogs, merge_vars, po_tasks, po_entries, po_result, mo_entries>>

(***************************************************************************)
(* Input catalogs of the merge.  An input entry is                          *)
(* [ctx, id, str, fuzzy]; the translation of the k-th entry of source i is  *)
(* "t<i><k>", so that a translation in the output names where it came from. *)
(***************************************************************************)
MaxEntries == 3       \* entries in all the sources of one merge together

str_a == <<97>>
str_b == <<98>>
str_c == <<99>>
str_quotes == <<cQUOTE, cQUOTE>>

Shapes ==
    { [ctx |-> None,        id |-> str_a,      fuzzy |-> FALSE],
      [ctx |-> None,        id |-> str_a,      fuzzy |-> TRUE],
      [ctx |-> Some(str_c), id |-> str_a,      fuzzy |-> FALSE],
      [ctx |-> None,        id |-> str_b,      fuzzy |-> FALSE],
      [ctx |-> None,        id |-> <<>>,       fuzzy |-> FALSE],
      [ctx |-> None,        id |-> str_quotes, fuzzy |-> FALSE] }

Translation(i, k) == <<116, 48 + i, 48 + k>>      \* "t<i><k>"
HeaderText(i)     == <<72, 48 + i, cLF>>          \* "H<i>\n"

InputEntry(shape, i, k) ==
    [ctx |-> shape.ctx, id |-> shape.id, fuzzy |-> shape.fuzzy,
     str |-> IF shape.id = <<>> THEN HeaderText(i) ELSE Translation(i, k)]

\* The shapes sh[1..n] cut into consecutive non-empty sources after the
\* positions in cuts
SourceOf(cuts, j) == Cardinality({c \in cuts : c < j})

CutInto(sh, n, cuts) ==
    [i \in 1..(Cardinality(cuts) + 1) |->
        LET js == {j \in 1..n : SourceOf(cuts, j) = i - 1}
            lo == MinOf(js)
        IN  [k \in 1..Cardinality(js) |-> InputEntry(sh[lo + k - 1], i - 1, k)]]

MergeInputs ==
    UNION { UNION { { CutInto(sh, n, cuts) : cuts \in SUBSET (1..(n - 1)) } :
                    sh \in [1..n -> Shapes] } : n \in 1..MaxEntries }

\* The PO text of an input entry, and of a source: entries separated by one
\* blank line
PoBlock(e) ==
    (IF e.fuzzy THEN writeln(<<cHASH, 44, cSPACE>> \o str_fuzzy) ELSE <<>>)
    \o (IF e.ctx.some
        THEN writeln(kw_msgctxt \o <<cQUOTE>> \o escape_po_string(e.ctx.val) \o <<cQUOTE>>)
        ELSE <<>>)
    \o writeln(kw_msgid \o <<cQUOTE>> \o escape_po_string(e.id) \o <<cQUOTE>>)
    \o writeln(kw_msgstr \o <<cQUOTE>> \o escape_po_string(e.str) \o <<cQUOTE>>)

PoSource(cat, final_blank) ==
    concat([k \in 1..Len(cat) |->
              PoBlock(cat[k])
              \o (IF k < Len(cat) \/ final_blank THEN writeln(<<>>) ELSE <<>>)])

SourcePath(i) == [dir |-> i, name |-> <<102, 48 + i>>]     \* <i>/f<i>

MergeInit ==
    /\ catalogs \in MergeInputs
    /\ ignore_main_entries \in BOOLEAN
    /\ \E final_blank \in BOOLEAN :
          fs = [p \in {SourcePath(i) : i \in 0..(Len(catalogs) - 1)} \cup {merged_path} |->
                  IF p = merged_path THEN NoFile
                  ELSE FileOf(PoSource(catalogs[p.dir + 1], final_blank))]
    /\ input_files = [i \in 1..Len(catalogs) |-> SourcePath(i - 1)]
    /\ pc = "merge_start"
    /\ entries = {}
    /\ header = <<>>
    /\ has_header = FALSE
    /\ file_index = 0
    /\ reader = <<>>
    /\ current_entry = PoEntry_default
    /\ state = "None"
    /\ line_number = 0
    /\ merge_result = "none"
    /\ po_tasks = <<>>
    /\ po_entries = {}
    /\ po_result = "none"
    /\ mo_entries = <<>>
    /\ mo_result = "none"
    /\ arg = <<>>
    /\ ret = <<>>
    /\ csv = CsvIdle

MergeNext == MergeStart \/ MergeLine \/ MergeEof \/ MergeWrite \/ MergeValidate

SpecMerge == MergeInit /\ [][MergeNext]_vars


(***************************************************************************)
(* Round trips through the converters.  A catalog is written as a PO file  *)
(* and taken through convert_po_to_mo and convert_mo_to_po, or written as  *)
(* an MO file (a context joined to the msgid by 0x04) and taken through    *)
(* convert_mo_to_po; the PO file that comes out is read back by            *)
(* merge_po_files.                                                         *)
(***************************************************************************)
MaxCatalog == 2       \* entries of one catalog

InputKey(e) == <<e.ctx, e.id>>

str_utf8 == <<195, 169>>                        \* one two-byte character
str_80   == [i \in 1..LONG_STRING_LEN |-> 121]       \* 80 bytes
str_81   == [i \in 1..(LONG_STRING_LEN + 1) |-> 120] \* 81 bytes

CatalogEntries ==
    { [ctx |-> None, id |-> <<>>, str |-> HeaderText(0), fuzzy |-> FALSE] }
    \cup { [ctx |-> c, id |-> i, str |-> t, fuzzy |-> FALSE] :
             c \in {None, Some(str_c)}, i \in {str_a, str_80},
             t \in {Translation(0, 1), str_utf8, str_81} }

ConvertInputs ==
    UNION { { cat \in [1..n -> CatalogEntries] :
                \A j, k \in 1..n : j # k => InputKey(cat[j]) # InputKey(cat[k]) } :
            n \in 1..MaxCatalog }

\* The MO file of a catalog
MoSource(cat) ==
    PoConverter_write_mo_file(
        [k \in 1..Len(cat) |->
            [msgid  |-> IF cat[k].ctx.some
                        THEN cat[k].ctx.val \o <<cEOT>> \o cat[k].id
                        ELSE cat[k].id,
             msgstr |-> cat[k].str]])

ConvertInit ==
    /\ \E cat \in ConvertInputs : catalogs = <<cat>>
    /\ \/ /\ pc = "po_start"
          /\ \E final_blank \in BOOLEAN :
                fs = [p \in {po_in_path, mo_path, po_out_path, merged_path} |->
                        IF p = po_in_path
                        THEN FileOf(PoSource(catalogs[1], final_blank))
                        ELSE NoFile]
       \/ /\ pc = "mo_start"
          /\ fs = [p \in {po_in_path, mo_path, po_out_path, merged_path} |->
                     IF p = mo_path THEN FileOf(MoSource(catalogs[1])) ELSE NoFile]
    /\ ignore_main_entries = FALSE
    /\ input_files = <<>>
    /\ entries = {}
    /\ header = <<>>
    /\ has_header = FALSE
    /\ file_index = 0
    /\ reader = <<>>
    /\ current_entry = PoEntry_default
    /\ state = "None"
    /\ line_number = 0
    /\ merge_result = "none"
    /\ po_tasks = <<>>
    /\ po_entries = {}
    /\ po_result = "none"
    /\ mo_entries = <<>>
    /\ mo_result = "none"
    /\ arg = <<>>
    /\ ret = <<>>
    /\ csv = CsvIdle

\* The MO file written by convert_po_to_mo is given to convert_mo_to_po
CallMoToPo ==
    /\ pc = "po_done"
    /\ UNCHANGED <<fn_vars, csv_vars>>
    /\ pc' = "mo_start"
    /\ UNCHANGED <<catalogs, fs, merge_vars, conv_vars>>

\* The PO file written by convert_mo_to_po is given to merge_po_files
CallMerge ==
    /\ pc = "mo_done"
    /\ UNCHANGED <<fn_vars, csv_vars>>
    /\ input_files' = <<po_out_path>>
    /\ pc' = "merge_start"
    /\ UNCHANGED <<catalogs, fs, ignore_main_entries, entries, header, has_header,
                   file_index, reader, current_entry, state, line_number, merge_result,
                   conv_vars>>

ConvertNext ==
    \/ PoStart \/ PoChunkStep \/ PoFinish \/ CallMoToPo
    \/ MoDecode \/ MoWrite \/ CallMerge
    \/ MergeStart \/ MergeLine \/ MergeEof \/ MergeWrite \/ MergeValidate

SpecConvert == ConvertInit /\ [][ConvertNext]_vars

(***************************************************************************)
(* convert_mo_to_po on MO files that are not well formed: a well-formed     *)
(* file of up to MaxStrings entries with one 32-bit word of its header or   *)
(* of its tables overwritten, or cut short.                                 *)
(***************************************************************************)
MaxStrings == 2       \* entries of a crafted MO file

\* The catalog "a" -> "t01", "b" -> "t02", ... of n entries
PlainCatalog(n) ==
    [k \in 1..n |-> [ctx |-> None, id |-> <<96 + k>>, str |-> Translation(0, k),
                     fuzzy |-> FALSE]]

\* 32-bit values: small ones, ones about the length n of the file, and ones
\* whose sums with an offset pass 2^32
U32Samples(n) ==
    { u32(0), u32(1), u32(8), u32(n - 1), u32(n), u32(n + 1),
      [hi |-> 32768, lo |-> 0], [hi |-> 65535, lo |-> 65528],
      [hi |-> 65535, lo |-> 65535] }

\* buffer with the four bytes at offset at (counted from 0) replaced by v
Overwrite(buffer, at, v) ==
    [k \in 1..Len(buffer) |->
        IF k > at /\ k <= at + 4 THEN to_le_bytes(v)[k - at] ELSE buffer[k]]

CraftedBuffers ==
    UNION { LET base == MoSource(PlainCatalog(n))
            IN  {base}
                \cup { SubSeq(base, 1, t) : t \in 0..(MO_HEADER_SIZE.lo - 1) }
                \cup { Overwrite(base, 0, v) : v \in U32Samples(Len(base)) }
                \cup { Overwrite(base, 8, u32(k)) : k \in 0..(MaxStrings + 1) }
                \cup { Overwrite(base, at, v) :
                         at \in {12, 16} \cup {28 + 4 * w : w \in 0..(4 * n - 1)},
                         v \in U32Samples(Len(base)) }
          : n \in 0..MaxStrings }

MoDecodeInit ==
    /\ catalogs = <<>>
    /\ pc = "mo_start"
    /\ \E buffer \in CraftedBuffers :
          fs = [p \in {po_in_path, mo_path, po_out_path, merged_path} |->
                  IF p = mo_path THEN FileOf(buffer) ELSE NoFile]
    /\ ignore_main_entries = FALSE
    /\ input_files = <<>>
    /\ entries = {}
    /\ header = <<>>
    /\ has_header = FALSE
    /\ file_index = 0
    /\ reader = <<>>
    /\ current_entry = PoEntry_default
    /\ state = "None"
    /\ line_number = 0
    /\ merge_result = "none"
    /\ po_tasks = <<>>
    /\ po_entries = {}
    /\ po_result = "none"
    /\ mo_entries = <<>>
    /\ mo_result = "none"
    /\ arg = <<>>
    /\ ret = <<>>
    /\ csv = CsvIdle

MoDecodeNext == MoDecode \/ MoWrite

SpecMoDecode == MoDecodeInit /\ [][MoDecodeNext]_vars

\* The mappings (context, source text) -> translation of a catalog, of the
\* entries decoded from an MO file and of the entries read from a PO file
CatalogMapping(cat) ==
    {[ctx |-> cat[k].ctx, id |-> cat[k].id, str |-> cat[k].str] : k \in 1..Len(cat)}

MoMapping ==
    {[ctx |-> mo_entries[k].msgctxt, id |-> mo_entries[k].orig_text,
      str |-> mo_entries[k].trans_text] : k \in 1..Len(mo_entries)}

PoMapping == {[ctx |-> e.msgctxt, id |-> e.msgid, str |-> e.msgstr] : e \in entries}

\* The first entry of the MO file convert_po_to_mo wrote
MoFirstEntry ==
    LET buffer == fs[mo_path].data
    IN  MoConverter_decode_entry(buffer, from_le_bytes(buffer, 12),
                                 from_le_bytes(buffer, 16), 0, TRUE).val

CatalogHeaders(cat) == {k \in 1..Len(cat) : cat[k].id = <<>>}

(***************************************************************************)
(* The two PO readers on files that are not well formed: the PO file of a  *)
(* catalog of up to MaxStrings entries, as it is or with one line that is  *)
(* no PO line put in at some place, read by convert_po_to_mo or by         *)
(* merge_po_files.                                                         *)
(***************************************************************************)
\* lines that are neither blank, nor a comment, nor a keyword line, nor a
\* quoted string: "x", "msgid" with nothing after it, and a string that is
\* opened and not closed
JunkLines == { <<120>>, key_msgid, <<cSPACE, 120, cSPACE>>, <<cQUOTE, 97>> }

\* keyword lines whose string part is a single double quote
MalformedLines == { kw_msgid \o <<cQUOTE>>, kw_msgstr \o <<cQUOTE>> }

InsertLine(ls, k, l) == SubSeq(ls, 1, k) \o <<l>> \o SubSeq(ls, k + 1, Len(ls))

CraftedPoFiles ==
    UNION { LET ls == lines(PoSource(PlainCatalog(n), TRUE))
            IN  { concat([k \in 1..Len(ls) |-> writeln(ls[k])]) }
                \cup { LET ls2 == InsertLine(ls, at, l)
                       IN  concat([k \in 1..Len(ls2) |-> writeln(ls2[k])]) :
                       at \in 0..Len(ls), l \in JunkLines \cup MalformedLines }
          : n \in 1..MaxStrings }

PoDecodeInit ==
    /\ catalogs = <<>>
    /\ pc \in {"po_start", "merge_start"}
    /\ \E text \in CraftedPoFiles :
          fs = [p \in {po_in_path, mo_path, po_out_path, merged_path} |->
                  IF p = po_in_path THEN FileOf(text) ELSE NoFile]
    /\ ignore_main_entries = FALSE
    /\ input_files = <<po_in_path>>
    /\ entries = {}
    /\ header = <<>>
    /\ has_header = FALSE
    /\ file_index = 0
    /\ reader = <<>>
    /\ current_entry = PoEntry_default
    /\ state = "None"
    /\ line_number = 0
    /\ merge_result = "none"
    /\ po_tasks = <<>>
    /\ po_entries = {}
    /\ po_result = "none"
    /\ mo_entries = <<>>
    /\ mo_result = "none"
    /\ arg = <<>>
    /\ ret = <<>>
    /\ csv = CsvIdle

PoDecodeNext ==
    \/ PoStart \/ PoChunkStep \/ PoFinish
    \/ MergeStart \/ MergeLine \/ MergeEof \/ MergeWrite \/ MergeValidate

SpecPoDecode == PoDecodeInit /\ [][PoDecodeNext]_vars

(***************************************************************************)
(* The escape and unescape functions called on their own, on every string  *)
(* of up to MaxLen characters over the characters that are escaped, the    *)
(* letter n of an escape and a letter of none.                             *)
(***************************************************************************)
MaxLen == 3           \* characters of a string given to escape or unescape

EscapeAlphabet == {cBSLASH, cQUOTE, cLF, cCR, cTAB, cLower_n, 120}     \* 120: "x"

StringsOver(alphabet, n) == UNION { [1..k -> alphabet] : k \in 0..n }

StringsInit ==
    /\ arg \in StringsOver(EscapeAlphabet, MaxLen)
    /\ ret = <<>>
    /\ csv = CsvIdle
    /\ pc = "strings_start"
    /\ catalogs = <<>>
    /\ fs = [p \in {merged_path} |-> NoFile]
    /\ ignore_main_entries = FALSE
    /\ input_files = <<>>
    /\ entries = {}
    /\ header = <<>>
    /\ has_header = FALSE
    /\ file_index = 0
    /\ reader = <<>>
    /\ current_entry = PoEntry_default
    /\ state = "None"
    /\ line_number = 0
    /\ merge_result = "none"
    /\ po_tasks = <<>>
    /\ po_entries = {}
    /\ po_result = "none"
    /\ mo_entries = <<>>
    /\ mo_result = "none"

\* arg is escaped by the escape function of the merge and by that of
\* mo_to_po
Escape ==
    /\ pc = "strings_start"
    /\ ret' = [merger |-> escape_po_string(arg),
               mo     |-> MoConverter_escape_po_string(arg)]
    /\ pc' = "escaped"
    /\ UNCHANGED <<catalogs, fs, merge_vars, conv_vars, csv_vars, arg>>

\* each escaped form is unescaped by the unescape function of the merge and
\* by that of po_to_mo
UnescapeEscaped ==
    /\ pc = "escaped"
    /\ ret' = [merger_merger |-> unescape_po_string(ret.merger),
               merger_po     |-> PoConverter_unescape_po_string(ret.merger),
               mo_merger     |-> unescape_po_string(ret.mo),
               mo_po         |-> PoConverter_unescape_po_string(ret.mo)]
    /\ pc' = "round_trip"
    /\ UNCHANGED <<catalogs, fs, merge_vars, conv_vars, csv_vars, arg>>

\* arg itself is unescaped by both unescape functions
Unescape ==
    /\ pc = "strings_start"
    /\ ret' = [merger |-> unescape_po_string(arg),
               po     |-> PoConverter_unescape_po_string(arg)]
    /\ pc' = "unescaped"
    /\ UNCHANGED <<catalogs, fs, merge_vars, conv_vars, csv_vars, arg>>

StringsNext == Escape \/ UnescapeEscaped \/ Unescape

SpecStrings == StringsInit /\ [][StringsNext]_vars

(***************************************************************************)
(* validate_po_file on every text of up to MaxLines lines, each a msgid    *)
(* line, a msgstr line, a quoted string, a comment, an empty line or a     *)
(* line of blanks.                                                         *)
(***************************************************************************)
MaxLines == 4         \* lines of a text given to validate_po_file

ValidateLines ==
    { kw_msgid \o <<cQUOTE, 97, cQUOTE>>,        \* msgid "a"
      kw_msgstr \o <<cQUOTE, 120, cQUOTE>>,      \* msgstr "x"
      <<cQUOTE, 115, cQUOTE>>,                   \* "s"
      <<cHASH, cSPACE, 99>>,                     \* # c
      <<>>,
      <<cSPACE, cSPACE>> }

ValidateInit ==
    /\ pc = "merge_validate"
    /\ \E ls \in StringsOver(ValidateLines, MaxLines) :
          fs = [p \in {merged_path} |->
                  FileOf(concat([k \in 1..Len(ls) |-> writeln(ls[k])]))]
    /\ catalogs = <<>>
    /\ ignore_main_entries = FALSE
    /\ input_files = <<>>
    /\ entries = {}
    /\ header = <<>>
    /\ has_header = FALSE
    /\ file_index = 0
    /\ reader = <<>>
    /\ current_entry = PoEntry_default
    /\ state = "None"
    /\ line_number = 0
    /\ merge_result = "none"
    /\ po_tasks = <<>>
    /\ po_entries = {}
    /\ po_result = "none"
    /\ mo_entries = <<>>
    /\ mo_result = "none"
    /\ arg = <<>>
    /\ ret = <<>>
    /\ csv = CsvIdle

ValidateNext == MergeValidate

SpecValidate == ValidateInit /\ [][ValidateNext]_vars

(***************************************************************************)
(* Reading the merge's inputs and its output.                              *)
(***************************************************************************)
\* Every input entry in fold order, with the index of its source
AllOcc ==
    concat([i \in 1..Len(catalogs) |->
              [k \in 1..Len(catalogs[i]) |-> [src |-> i - 1, e |-> catalogs[i][k]]]])

\* The occurrences of a key, in fold order
OccOf(key) == SelectSeq(AllOcc, LAMBDA o : InputKey(o.e) = key)

\* Keys of ordinary entries: neither a header block (msgid "") nor the msgid
\* made of two quote characters, which line 94 takes for the header
OrdinaryKeys ==
    {InputKey(AllOcc[n].e) : n \in 1..Len(AllOcc)}
        \ {key \in {InputKey(AllOcc[n].e) : n \in 1..Len(AllOcc)} :
              key[2] \in {<<>>, str_quotes}}

SourcesOf(key) == {OccOf(key)[n].src : n \in 1..Len(OccOf(key))}

OncePerSource(key) == Cardinality(SourcesOf(key)) = Len(OccOf(key))

MergedWritten == fs[merged_path].exists
MergedText    == fs[merged_path].data

\* The output holds the entry of occurrence o: its comment, msgctxt, msgid and
\* msgstr lines as one block
Carries(o) == contains(MergedText, PoBlock(o.e) \o writeln(<<>>))

\* The msgid lines of the output, in order, unescaped
MergedMsgids ==
    LET ls  == lines(MergedText)
        ids == SelectSeq(ls, LAMBDA l : starts_with(l, kw_msgid))
    IN  [n \in 1..Len(ids) |->
            parse_po_string(SubSeq(ids[n], Len(kw_msgid) + 1, Len(ids[n]))).val]


(***************************************************************************)
(* Claims about merge_po_files, checked under SpecMerge.                   *)
(***************************************************************************)

\* C1: for a catalog written as a PO file, the entries convert_mo_to_po
\* decodes from the MO file convert_po_to_mo produced are the catalog's
\* (context, source text) -> translation pairs: none lost, added or altered.
C1_MoRoundTrip ==
    (po_result = "Ok" /\ pc = "mo_write") => MoMapping = CatalogMapping(catalogs[1])

\* C2: for a catalog none of whose strings holds a line feed, the entries
\* merge_po_files reads from the PO file convert_mo_to_po wrote are the
\* decoded catalog's (context, source text) -> translation pairs.
C2_PoRoundTrip ==
    (mo_result = "Ok" /\ pc = "merge_write"
       /\ \A k \in 1..Len(mo_entries) :
             /\ ~contains_char(mo_entries[k].msgctxt.val, cLF)
             /\ ~contains_char(mo_entries[k].orig_text, cLF)
             /\ ~contains_char(mo_entries[k].trans_text, cLF))
        => PoMapping = MoMapping

\* C3: with ignore_main_entries = TRUE, the entry first stored for a key from
\* the main (first) source is the one the merged output carries, whatever
\* entries with the same key the later sources hold.
C3_MainEntryNotReplaced ==
    (MergedWritten /\ ignore_main_entries) =>
        \A key \in OrdinaryKeys :
            OccOf(key)[1].src = 0 =>
                /\ Carries(OccOf(key)[1])
                /\ \A n \in 2..Len(OccOf(key)) : ~Carries(OccOf(key)[n])

\* C3 witness: three sources hold the same key, the main one and two later
\* ones, and the output carries the main source's translation.
C3_Witness ==
    /\ MergedWritten /\ ignore_main_entries
    /\ \E key \in OrdinaryKeys :
          /\ SourcesOf(key) = {0, 1, 2}
          /\ ~OccOf(key)[1].e.fuzzy
          /\ Carries(OccOf(key)[1])

\* The rule of spec 4.4 as C4 words it: under ignore_main_entries an entry of
\* the main source is kept; otherwise the incoming entry replaces the existing
\* one when it comes from the main source or when the existing one is fuzzy.
RECURSIVE C4_Fold(_, _)
C4_Fold(w, rest) ==
    IF rest = <<>> THEN w
    ELSE LET o == Head(rest)
         IN  C4_Fold(IF ignore_main_entries /\ w.src = 0 THEN w
                     ELSE IF o.src = 0 \/ w.e.fuzzy THEN o
                     ELSE w,
                     Tail(rest))

\* C4 (as claimed): an existing entry is replaced by an incoming one when the
\* incoming source is the main source or the existing entry is fuzzy, and is
\* kept when the incoming source is not the main one and the existing entry is
\* not fuzzy.
C4_ReplaceWhenMainOrExistingFuzzy ==
    MergedWritten =>
        \A key \in OrdinaryKeys :
            Carries(C4_Fold(OccOf(key)[1], Tail(OccOf(key))))

\* The rule C5 states for sources in order: a later source's entry replaces
\* the stored one unless the stored one is fuzzy.
RECURSIVE C5_Fold(_, _)
C5_Fold(w, rest) ==
    IF rest = <<>> THEN w
    ELSE C5_Fold(IF w.e.fuzzy THEN w ELSE Head(rest), Tail(rest))

C6_EarliestSourceWins ==
    MergedWritten =>
        \A key \in OrdinaryKeys :
            (Cardinality(SourcesOf(key)) > 1 /\ OncePerSource(key)) =>
                Carries(OccOf(key)[1])

\* C7 (as claimed): when the main source holds a header block (msgid ""), the
\* output starts with a header entry (msgid "") that carries the main
\* source's header text.
C7_MainHeaderPreserved ==
    MergedWritten =>
        \A k \in 1..Len(catalogs[1]) :
            catalogs[1][k].id = <<>> =>
                /\ has_header
                /\ header = catalogs[1][k].str
                /\ MergedMsgids # <<>> /\ MergedMsgids[1] = <<>>

\* C8: the merged catalog never holds two entries with the same
\* (msgctxt, msgid), and for every key of the inputs the output carries
\* exactly one entry, so that entries with one msgid and different contexts
\* are all in the output.
C8_OneEntryPerKey ==
    /\ \A e1, e2 \in entries : entry_key(e1) = entry_key(e2) => e1 = e2
    /\ MergedWritten =>
          \A key \in OrdinaryKeys :
              Cardinality({n \in 1..Len(OccOf(key)) : Carries(OccOf(key)[n])}) = 1

\* C8 witness: the inputs hold "a" without a context and "a" with the context
\* "c", each in two sources, and the output carries one entry for each key.
C8_Witness ==
    /\ MergedWritten
    /\ Len(OccOf(<<None, str_a>>)) >= 2
    /\ Len(OccOf(<<Some(str_c), str_a>>)) >= 1
    /\ \E n \in 1..Len(OccOf(<<None, str_a>>)) : Carries(OccOf(<<None, str_a>>)[n])
    /\ \E n \in 1..Len(OccOf(<<Some(str_c), str_a>>)) :
           Carries(OccOf(<<Some(str_c), str_a>>)[n])

C10_InputHeaderKept ==
    po_result = "Ok" =>
        LET hs == CatalogHeaders(catalogs[1])
        IN  /\ hs # {} =>
                  /\ MoFirstEntry.orig_text = <<>>
                  /\ \E k \in hs : MoFirstEntry.trans_text = catalogs[1][k].str
            /\ MoFirstEntry.trans_text = PoConverter_default_header => hs = {}

\* The number of entries in the header of the MO file convert_po_to_mo wrote
MoFileCount == as_usize(from_le_bytes(fs[mo_path].data, 8))

\* The length and the offset in the i-th pair of the table whose offset is
\* at table_at in the file's header, and the bytes they address (i from 1)
MoFileLength(table_at, i) ==
    LET buffer == fs[mo_path].data
    IN  as_usize(from_le_bytes(buffer,
            as_usize(from_le_bytes(buffer, table_at)) + 8 * (i - 1)))

MoFileOffset(table_at, i) ==
    LET buffer == fs[mo_path].data
    IN  as_usize(from_le_bytes(buffer,
            as_usize(from_le_bytes(buffer, table_at)) + 8 * (i - 1) + 4))

MoFileString(table_at, i) ==
    slice(fs[mo_path].data, MoFileOffset(table_at, i),
          MoFileOffset(table_at, i) + MoFileLength(table_at, i))

MoFileOriginal(i)    == MoFileString(12, i)
MoFileTranslation(i) == MoFileString(16, i)

\* C11: for a PO entry with msgctxt c and msgid m the MO file holds an entry
\* whose original string is c, one 0x04 byte, then m, and whose translation
\* is the entry's msgstr; two PO entries with one msgid and different
\* contexts give two MO entries.
C11_ContextJoinedBy04 ==
    po_result = "Ok" =>
        \A k \in 1..Len(catalogs[1]) :
            catalogs[1][k].ctx.some =>
                \E i \in 1..MoFileCount :
                    /\ MoFileOriginal(i) =
                          catalogs[1][k].ctx.val \o <<cEOT>> \o catalogs[1][k].id
                    /\ MoFileTranslation(i) = catalogs[1][k].str

\* C12: the MO file's entries are in ascending byte order of their original
\* strings, the header entry (empty original string) first, and the i-th
\* pair of the translation table addresses the translation of the entry
\* whose original string the i-th pair of the original table addresses.
C12_AscendingHeaderFirst ==
    po_result = "Ok" =>
        /\ MoFileCount >= 1
        /\ MoFileOriginal(1) = <<>>
        /\ \A i, j \in 1..MoFileCount :
              i < j => str_less(MoFileOriginal(i), MoFileOriginal(j))
        /\ \A i \in 2..MoFileCount :
              \E k \in 1..Len(catalogs[1]) :
                 /\ catalogs[1][k].id = MoFileOriginal(i)
                 /\ catalogs[1][k].str = MoFileTranslation(i)

\* C12 witness: the PO file held the 80-byte msgid before the msgid "a", and
\* the MO file holds the header, then "a", then the 80-byte msgid, each with
\* its own translation.
C12_Witness ==
    /\ po_result = "Ok"
    /\ Len(catalogs[1]) = 2
    /\ catalogs[1][1].id = str_80
    /\ catalogs[1][2].id = str_a
    /\ catalogs[1][1].str # catalogs[1][2].str
    /\ MoFileCount = 3
    /\ MoFileOriginal(2) = str_a
    /\ MoFileTranslation(2) = catalogs[1][2].str
    /\ MoFileOriginal(3) = str_80
    /\ MoFileTranslation(3) = catalogs[1][1].str

\* C13: the MO file of N entries is laid out consistently: magic 0x950412DE,
\* revision 0, N, original table at 28, translation table at 28 + 8N, hash
\* size 0 and hash offset 0; the strings lie one after another from 28 + 16N,
\* msgid then msgstr, entry by entry, each addressed exactly by its pair and
\* followed by one NUL byte; the file ends after the last NUL; the strings
\* are those of the parsed entries.
C13_ConsistentLayout ==
    po_result = "Ok" =>
        LET buffer == fs[mo_path].data
            N      == Cardinality(PoConverter_with_header(po_entries))
        IN  /\ SubSeq(buffer, 1, 4) = <<222, 18, 4, 149>>
            /\ from_le_bytes(buffer, 4) = u32(0)
            /\ from_le_bytes(buffer, 8) = u32(N)
            /\ from_le_bytes(buffer, 12) = u32(28)
            /\ from_le_bytes(buffer, 16) = u32(28 + 8 * N)
            /\ from_le_bytes(buffer, 20) = u32(0)
            /\ from_le_bytes(buffer, 24) = u32(0)
            /\ MoFileOffset(12, 1) = 28 + 16 * N
            /\ \A i \in 1..N :
                  /\ MoFileOffset(16, i) = MoFileOffset(12, i) + MoFileLength(12, i) + 1
                  /\ buffer[MoFileOffset(16, i)] = 0
                  /\ buffer[MoFileOffset(16, i) + MoFileLength(16, i) + 1] = 0
                  /\ IF i < N
                     THEN MoFileOffset(12, i + 1) =
                              MoFileOffset(16, i) + MoFileLength(16, i) + 1
                     ELSE Len(buffer) = MoFileOffset(16, i) + MoFileLength(16, i) + 1
            /\ {<<MoFileOriginal(i), MoFileTranslation(i)>> : i \in 1..N}
                  = {<<e.msgid, e.msgstr>> : e \in PoConverter_with_header(po_entries)}

\* C13 witness: a file of three entries, one of them with a two-byte
\* character in its translation and one with an 81-byte translation.
C13_Witness ==
    /\ po_result = "Ok"
    /\ MoFileCount = 3
    /\ \E i, j \in 2..3 : /\ MoFileTranslation(i) = str_utf8
                          /\ MoFileTranslation(j) = str_81
    /\ Len(fs[mo_path].data) = 28 + 16 * 3 + (0 + 1) + (72 + 1) + (1 + 1) + (80 + 1)
                                  + (2 + 1) + (81 + 1)

\* The file convert_mo_to_po was given, and whether its header was accepted
MoBuffer == fs[mo_path].data

MoHeaderAccepted ==
    Len(MoBuffer) >= MIN_MO_LEN /\ from_le_bytes(MoBuffer, 0) = MAGIC_NUMBER

\* a + b > n for the 32-bit values a and b, the sum taken without wrapping,
\* and a length n < 2^30
SumExceeds(a, b, n) ==
    a.hi >= 16384 \/ b.hi >= 16384 \/ as_usize(a) + as_usize(b) > n

\* The i-th pair (i from 0) of the table at table_offset lies outside the
\* file, or the string it addresses does
PairOutOfBounds(table_offset, i) ==
    \/ SumExceeds(table_offset, u32(8 * i + 8), Len(MoBuffer))
    \/ LET at == as_usize(table_offset) + 8 * i
       IN  SumExceeds(from_le_bytes(MoBuffer, at + 4), from_le_bytes(MoBuffer, at),
                      Len(MoBuffer))

MoOutOfBounds ==
    \E i \in 0..(as_usize(from_le_bytes(MoBuffer, 8)) - 1) :
        \/ PairOutOfBounds(from_le_bytes(MoBuffer, 12), i)
        \/ PairOutOfBounds(from_le_bytes(MoBuffer, 16), i)

\* C14: when a table pair's offset + 8 or a string's offset + length exceeds
\* the length of the file, also when the sum passes 2^32 - 1, convert_mo_to_po
\* returns an error; it never ends abnormally.
C14_OutOfBoundsIsError ==
    (pc # "mo_start" /\ MoHeaderAccepted) =>
        /\ mo_result # "Panic"
        /\ MoOutOfBounds => mo_result = "Err"

\* C15: convert_mo_to_po returns an error for every file shorter than 20
\* bytes and for every file whose first four bytes are not DE 12 04 95.
C15_ShortOrBadMagicIsError ==
    (pc # "mo_start"
       /\ (Len(MoBuffer) < 20 \/ SubSeq(MoBuffer, 1, 4) # <<222, 18, 4, 149>>))
        => mo_result = "Err"

\* C15 witness: a file that is well formed but for its first four bytes was
\* refused.
C15_Witness ==
    /\ pc = "done"
    /\ mo_result = "Err"
    /\ Len(MoBuffer) >= 20
    /\ SubSeq(MoBuffer, 1, 4) # <<222, 18, 4, 149>>
    /\ SubSeq(MoBuffer, 5, Len(MoBuffer))
          = SubSeq(MoSource(PlainCatalog(MaxStrings)), 5,
                   Len(MoSource(PlainCatalog(MaxStrings))))

\* C16: for every string s over backslash, double quote, line feed, carriage
\* return, tab and printable characters, unescaping the escaped form of s
\* gives s, for each pairing of an escape with an unescape function.
C16_UnescapeEscapeIsIdentity ==
    pc = "round_trip" =>
        /\ ret.merger_merger = arg
        /\ ret.merger_po = arg
        /\ ret.mo_merger = arg
        /\ ret.mo_po = arg

\* C16 witness: a string holding a backslash followed by the letter n, and a
\* line feed, came back from all four pairings.
C16_Witness ==
    /\ pc = "round_trip"
    /\ arg = <<cBSLASH, cLower_n, cLF>>
    /\ ret.merger_merger = arg
    /\ ret.mo_po = arg

\* C17: unescape never fails, and a backslash followed by a character other
\* than backslash, double quote, n, r or t stays in the result together with
\* that character, in the unescape of po_to_mo and in that of the merge.
C17_UnknownEscapeKept ==
    (pc = "unescaped" /\ Len(arg) >= 2 /\ arg[1] = cBSLASH
       /\ arg[2] \notin {cBSLASH, cQUOTE, cLower_n, cLower_r, cLower_t}
       /\ \A k \in 3..Len(arg) : arg[k] # cBSLASH)
        => /\ ret.po = arg
           /\ ret.merger = arg

\* The PO file given to a reader holds a line that is not blank, is no
\* comment, starts with none of the three keywords and is no quoted string
IsJunkLine(l) ==
    /\ trim(l) # <<>>
    /\ ~starts_with(trim(l), <<cHASH>>)
    /\ ~starts_with(trim(l), kw_msgctxt)
    /\ ~starts_with(trim(l), kw_msgid)
    /\ ~starts_with(trim(l), kw_msgstr)
    /\ ~(Len(trim(l)) >= 2 /\ starts_with(trim(l), <<cQUOTE>>)
           /\ ends_with(trim(l), <<cQUOTE>>))

PoInputHasJunk ==
    \E k \in 1..Len(lines(fs[po_in_path].data)) :
        IsJunkLine(lines(fs[po_in_path].data)[k])

\* C18: a PO file that holds a non-blank line that is no comment, starts with
\* none of msgctxt, msgid and msgstr and is no quoted string is refused with
\* an error, by merge_po_files and by convert_po_to_mo.
C18_JunkLineIsError ==
    PoInputHasJunk =>
        /\ pc = "done" => merge_result = "Err"
        /\ pc \notin {"merge_write", "merge_validate"}
        /\ po_result # "Ok"

\* The line msgid "" that opens a header entry
HeaderMsgidLine == writeln(key_msgid \o <<cSPACE, cQUOTE, cQUOTE>>)

\* C19: the PO file the merge writes starts with a header entry (msgid ""),
\* the main file's header or a default one, and its entries are separated by
\* exactly one blank line.
C19_OutputStartsWithHeader ==
    MergedWritten =>
        /\ starts_with(MergedText, HeaderMsgidLine)
        /\ ~contains(MergedText, <<cLF, cLF, cLF>>)

\* The lines of the text given to validate_po_file, and its blocks: the
\* longest runs i..j of lines that are not blank
ValidatedLines == lines(MergedText)

IsBlankLine(k) == trim(ValidatedLines[k]) = <<>>

IsBlock(i, j) ==
    /\ i <= j
    /\ \A k \in i..j : ~IsBlankLine(k)
    /\ i = 1 \/ IsBlankLine(i - 1)
    /\ j = Len(ValidatedLines) \/ IsBlankLine(j + 1)

MsgidLines(i, j)  == {k \in i..j : starts_with(trim(ValidatedLines[k]), kw_msgid)}
MsgstrLines(i, j) == {k \in i..j : starts_with(trim(ValidatedLines[k]), kw_msgstr)}

\* a msgid line without a msgstr line, a msgstr line without a msgid line, or
\* a msgstr line before the first msgid line
BlockUnpaired(i, j) ==
    \/ MsgidLines(i, j) # {} /\ MsgstrLines(i, j) = {}
    \/ MsgstrLines(i, j) # {} /\ MsgidLines(i, j) = {}
    \/ /\ MsgidLines(i, j) # {} /\ MsgstrLines(i, j) # {}
       /\ MinOf(MsgstrLines(i, j)) < MinOf(MsgidLines(i, j))

\* C20: validate_po_file returns an error exactly when a block of the text
\* holds a msgid line and no msgstr line, a msgstr line and no msgid line, or
\* a msgstr line before its msgid line.
C20_ValidationErrorIffUnpaired ==
    pc = "done" =>
        (merge_result = "Err"
            <=> \E i, j \in 1..Len(ValidatedLines) :
                    IsBlock(i, j) /\ BlockUnpaired(i, j))

\* C20 witness: a text whose first block pairs a msgid with a msgstr and
\* whose second block has the msgstr before the msgid was refused.
C20_Witness ==
    /\ pc = "done"
    /\ merge_result = "Err"
    /\ Len(ValidatedLines) = 4
    /\ IsBlock(1, 1) /\ ~BlockUnpaired(1, 1)
    /\ IsBlock(3, 4) /\ BlockUnpaired(3, 4)
    /\ MsgstrLines(3, 4) = {3}

(***************************************************************************)
(* CsvConverter::convert_csv_to_po(csv_in_path, po_out_path), one step per *)
(* line of the input.                                                      *)
(***************************************************************************)
csv_in_path == [dir |-> 93, name |-> <<105, 110, 46, 99, 115, 118>>]     \* in.csv

\* Local::now().format("%Y-%m-%d %H:%M%z") at two moments
Dates ==
    { <<50, 48, 50, 53, 45, 48, 49, 45, 48, 49, 32, 48, 48, 58, 48, 48, 43, 48, 48, 48, 48>>,
      <<50, 48, 50, 53, 45, 48, 54, 45, 51, 48, 32, 49, 50, 58, 51, 48, 43, 48, 56, 48, 48>> }

\* Lines 21-33: open the input, create the output, write the header block
CsvStart ==
    /\ pc = "csv_start"
    /\ UNCHANGED <<catalogs, merge_vars, conv_vars, fn_vars>>
    /\ IF ~fs[csv_in_path].exists
       THEN /\ csv' = [csv EXCEPT !.result = "Err"]
            /\ pc' = "csv_done"
            /\ UNCHANGED fs
       ELSE /\ \E date_str \in Dates :
                  fs' = [fs EXCEPT ![po_out_path] = FileOf(write_po_header(date_str))]
            /\ csv' = [reader |-> lines(fs[csv_in_path].data), is_first_line |-> TRUE,
                       has_header |-> FALSE, entries_count |-> 0, result |-> "none"]
            /\ pc' = "csv_read"

\* Lines 35-88: one turn of the loop over the lines
CsvLine ==
    /\ pc = "csv_read"
    /\ UNCHANGED <<catalogs, merge_vars, conv_vars, fn_vars>>
    /\ csv.reader # <<>>
    /\ LET raw  == Head(csv.reader)
           line == IF csv.is_first_line /\ starts_with(raw, BOM)
                   THEN SubSeq(raw, 4, Len(raw)) ELSE raw
           fields == parse_csv_line(line)
           next == [csv EXCEPT !.reader = Tail(csv.reader), !.is_first_line = FALSE]
       IN  IF ~valid_utf8(raw)
           THEN /\ csv' = [csv EXCEPT !.result = "Err"]
                /\ pc' = "csv_done"
                /\ UNCHANGED fs
           ELSE IF trim(line) = <<>> \/ Len(fields) < 2
           THEN /\ csv' = next
                /\ UNCHANGED <<fs, pc>>
           ELSE IF csv_skip_as_header(csv.has_header, fields)
           THEN /\ csv' = [next EXCEPT !.has_header = TRUE]
                /\ UNCHANGED <<fs, pc>>
           ELSE IF trim(fields[1]) = <<>>
           THEN /\ csv' = next
                /\ UNCHANGED <<fs, pc>>
           ELSE /\ fs' = [fs EXCEPT ![po_out_path].data =
                                      @ \o csv_write_entry(fields[1], fields[2])]
                /\ csv' = [next EXCEPT !.entries_count = @ + 1]
                /\ UNCHANGED pc

\* Lines 90-95: no entry written is an error
CsvEnd ==
    /\ pc = "csv_read"
    /\ UNCHANGED <<catalogs, merge_vars, conv_vars, fn_vars>>
    /\ csv.reader = <<>>
    /\ csv' = [csv EXCEPT !.result = IF csv.entries_count = 0 THEN "Err" ELSE "Ok"]
    /\ pc' = "csv_done"
    /\ UNCHANGED fs

\* The merger and the converters before they are called
MergeIdle ==
    /\ ignore_main_entries = FALSE
    /\ input_files = <<>>
    /\ entries = {}
    /\ header = <<>>
    /\ has_header = FALSE
    /\ file_index = 0
    /\ reader = <<>>
    /\ current_entry = PoEntry_default
    /\ state = "None"
    /\ line_number = 0
    /\ merge_result = "none"

ConvIdle ==
    /\ po_tasks = <<>>
    /\ po_entries = {}
    /\ po_result = "none"
    /\ mo_entries = <<>>
    /\ mo_result = "none"

(***************************************************************************)
(* CSV files of up to MaxRows lines, with and without a byte order mark,   *)
(* and the conversion of a file that does not exist.                       *)
(***************************************************************************)
MaxRows == 3

row_header == <<230, 186, 144, 232, 175, 173, 232, 168, 128, 44,
                231, 191, 187, 232, 175, 145>>                     \* 源语言,翻译
row_hello  == <<72, 101, 108, 108, 111, 44, 228, 189, 160, 229, 165, 189>>  \* Hello,你好
str_Hello  == <<72, 101, 108, 108, 111>>
str_nihao  == <<228, 189, 160, 229, 165, 189>>

CsvRows ==
    { row_header,
      row_hello,
      <<73, 68, 44, 120>>,                    \* ID,x
      <<98>> \o <<44>> \o key_msgstr,         \* b,msgstr
      <<97>>,                                 \* a
      <<cSPACE, cSPACE>>,
      <<44, 120>>,                            \* ,x
      <<cSPACE, 44>> \o <<231, 155, 174, 230, 160, 135>> }   \* " ,目标"

CsvText(rows, bom) ==
    (IF bom THEN BOM ELSE <<>>) \o concat([k \in 1..Len(rows) |-> writeln(rows[k])])

CsvInit ==
    /\ pc = "csv_start"
    /\ \E rows \in StringsOver(CsvRows, MaxRows), bom, present \in BOOLEAN :
          /\ present \/ (rows = <<>> /\ ~bom)
          /\ fs = [p \in {csv_in_path, po_out_path} |->
                     IF p = csv_in_path /\ present
                     THEN FileOf(CsvText(rows, bom)) ELSE NoFile]
    /\ catalogs = <<>>
    /\ MergeIdle
    /\ ConvIdle
    /\ arg = <<>>
    /\ ret = <<>>
    /\ csv = CsvIdle

CsvNext == CsvStart \/ CsvLine \/ CsvEnd

SpecCsv == CsvInit /\ [][CsvNext]_vars

\* The rows of the input that have two fields or more, as their fields
CsvInputRows ==
    LET data == fs[csv_in_path].data
        text == IF starts_with(data, BOM) THEN SubSeq(data, 4, Len(data)) ELSE data
        ls   == SelectSeq(lines(text),
                          LAMBDA l : trim(l) # <<>> /\ Len(parse_csv_line(l)) >= 2)
    IN  [k \in 1..Len(ls) |-> parse_csv_line(ls[k])]

\* The first row whose first or second field holds a word of the vocabulary
\* (0: none)
CsvHeaderRow ==
    LET hs == {k \in 1..Len(CsvInputRows) : csv_looks_like_header(CsvInputRows[k])}
    IN  IF hs = {} THEN 0 ELSE MinOf(hs)

\* One entry for every other row whose first field is not blank
CsvExpectedEntries ==
    concat([k \in 1..Len(CsvInputRows) |->
              IF k # CsvHeaderRow /\ trim(CsvInputRows[k][1]) # <<>>
              THEN csv_write_entry(CsvInputRows[k][1], CsvInputRows[k][2])
              ELSE <<>>])

CsvFinished == pc = "csv_done" /\ fs[csv_in_path].exists

MaxCsvLen == 4

CsvAlphabet == {cQUOTE, cCOMMA, cSEMICOLON, cPIPE, cTAB, 97}        \* 97: "a"

CsvLineInit ==
    /\ arg \in StringsOver(CsvAlphabet, MaxCsvLen)
    /\ ret = <<>>
    /\ pc = "csv_line_start"
    /\ fs = [p \in {csv_in_path} |-> NoFile]
    /\ catalogs = <<>>
    /\ MergeIdle
    /\ ConvIdle
    /\ csv = CsvIdle

ParseCsvLine ==
    /\ pc = "csv_line_start"
    /\ ret' = parse_csv_line(arg)
    /\ pc' = "csv_line_done"
    /\ UNCHANGED <<catalogs, fs, merge_vars, conv_vars, csv_vars, arg>>

CsvLineNext == ParseCsvLine

SpecCsvLine == CsvLineInit /\ [][CsvLineNext]_vars

\* The character at i lies inside a quoted field: an odd number of quotes
\* comes before it
InsideQuotes(line, i) ==
    Cardinality({j \in 1..(i - 1) : line[j] = cQUOTE}) % 2 = 1

CsvDelimiters == {cCOMMA, cTAB, cSEMICOLON, cPIPE}

\* Every quoted field of the line is closed
QuotesClosed(line) ==
    Cardinality({j \in 1..Len(line) : line[j] = cQUOTE}) % 2 = 0

\* C22: a delimiter inside a quoted field does not split the field: a line
\* whose quoted fields are closed and whose delimiters (comma, tab, ';', '|')
\* all lie inside quoted fields is one field.
C22_QuotedDelimiterDoesNotSplit ==
    (/\ pc = "csv_line_done"
     /\ QuotesClosed(arg)
     /\ \A i \in 1..Len(arg) : arg[i] \in CsvDelimiters => InsideQuotes(arg, i))
        => Len(ret) = 1

(***************************************************************************)
(* convert_po_to_mo on files of two entries around the first chunk         *)
(* boundary: blank lines, the first entry, a blank line, the second entry. *)
(* The number of leading blank lines puts the boundary after the first     *)
(* entry, inside the first entry or inside the second entry.               *)
(***************************************************************************)
MaxShift == 4

ChunkedPoFile(pad, x, y) ==
    concat([k \in 1..pad |-> writeln(<<>>)])
    \o writeln(kw_msgid \o <<cQUOTE>> \o x \o <<cQUOTE>>)
    \o writeln(kw_msgstr \o <<cQUOTE>> \o Translation(0, 1) \o <<cQUOTE>>)
    \o writeln(<<>>)
    \o writeln(kw_msgid \o <<cQUOTE>> \o y \o <<cQUOTE>>)
    \o writeln(kw_msgstr \o <<cQUOTE>> \o Translation(0, 2) \o <<cQUOTE>>)

ChunksInit ==
    /\ pc = "po_start"
    /\ \E pad \in (CHUNK_SIZE - 1 - MaxShift)..(CHUNK_SIZE - 1), x, y \in {str_a, str_b} :
          fs = [p \in {po_in_path, mo_path} |->
                  IF p = po_in_path THEN FileOf(ChunkedPoFile(pad, x, y)) ELSE NoFile]
    /\ catalogs = <<>>
    /\ MergeIdle
    /\ ConvIdle
    /\ arg = <<>>
    /\ ret = <<>>
    /\ csv = CsvIdle

ChunksNext == PoStart \/ PoChunkStep \/ PoFinish

SpecChunks == ChunksInit /\ [][ChunksNext]_vars

\* The lines of the PO input
PoInputLines == lines(fs[po_in_path].data)

\* A single pass over the lines lo..hi, from the current entry and the map in
\* st.  The range is halved, and the first half is evaluated before the
\* second half is entered, to keep the evaluation shallow.
RECURSIVE SequentialPass(_, _, _, _)
SequentialPass(ls, st, lo, hi) ==
    IF lo > hi THEN st
    ELSE IF lo = hi THEN PoConverter_chunk_line(st.task, st.map, ls[lo])
    ELSE LET mid   == (lo + hi) \div 2
             first == SequentialPass(ls, st, lo, mid)
         IN  IF first.map = first.map /\ first.task = first.task
             THEN SequentialPass(ls, first, mid + 1, hi)
             ELSE st

SequentialDecode ==
    LET ls == PoInputLines
        st == IF Len(ls) = 0
              THEN [task |-> [current_entry  |-> PoConverter_PoEntry_default,
                              reading_msgid  |-> FALSE,
                              reading_msgstr |-> FALSE],
                    map  |-> {}]
              ELSE SequentialPass(ls,
                                  [task |-> [current_entry  |-> PoConverter_PoEntry_default,
                                             reading_msgid  |-> FALSE,
                                             reading_msgstr |-> FALSE],
                                   map  |-> {}],
                                  1, Len(ls))
    IN  PoConverter_chunk_end(st.task, st.map)

\* A line that ends an entry: blank or a comment
IsSeparatorLine(l) == trim(l) = <<>> \/ starts_with(trim(l), <<cHASH>>)

\* No entry has lines on both sides of a chunk boundary
NoEntrySpansChunks ==
    \A k \in 1..Len(PoInputLines) - 1 :
        k % CHUNK_SIZE = 0
            => IsSeparatorLine(PoInputLines[k]) \/ IsSeparatorLine(PoInputLines[k + 1])

\* Every task of the parallel scan has ended
PoScanEnded ==
    /\ pc = "po_parse"
    /\ \A c \in 1..Len(po_tasks) : po_tasks[c].finished

\* C23: when no entry spans a chunk boundary, the parallel scan leaves, in
\* every interleaving, the map of a single sequential pass (last write wins on
\* a duplicate key).
C23_ParallelScanIsSequential ==
    (PoScanEnded /\ NoEntrySpansChunks) => po_entries = SequentialDecode

\* The keys of the file are distinct: the sequential pass keeps one entry per
\* msgid line
PoKeysDistinct ==
    Cardinality(SequentialDecode)
        = Cardinality({k \in 1..Len(PoInputLines) :
                          starts_with(trim(PoInputLines[k]), kw_msgid)})

\* C24: every entry of the file is in the decoded map with its complete msgid
\* and msgstr, wherever the chunk boundaries fall (files with distinct keys).
C24_EveryEntryComplete ==
    (PoScanEnded /\ PoKeysDistinct) => SequentialDecode \subseteq po_entries

(***************************************************************************)
(* Merges whose later sources may have the file name of the first source,  *)
(* in another directory.                                                   *)
(***************************************************************************)
PlainShapes == {s \in Shapes : ~s.fuzzy /\ s.id \in {str_a, str_b}}

NamedInputs ==
    UNION { UNION { { CutInto(sh, n, cuts) : cuts \in (SUBSET (1..(n - 1))) \ {{}} } :
                    sh \in [1..n -> PlainShapes] } : n \in 2..MaxEntries }

\* The path of source i: its own name, or the name of the first source
NamedPath(i, same) ==
    [dir |-> i, name |-> IF i \in same THEN SourcePath(0).name ELSE SourcePath(i).name]

MergeNamesInit ==
    /\ catalogs \in NamedInputs
    /\ ignore_main_entries \in BOOLEAN
    /\ \E same \in SUBSET (1..(Len(catalogs) - 1)) :
          /\ fs = [p \in {NamedPath(i, same) : i \in 0..(Len(catalogs) - 1)}
                         \cup {merged_path} |->
                     IF p = merged_path THEN NoFile
                     ELSE FileOf(PoSource(catalogs[p.dir + 1], TRUE))]
          /\ input_files = [i \in 1..Len(catalogs) |-> NamedPath(i - 1, same)]
    /\ pc = "merge_start"
    /\ entries = {}
    /\ header = <<>>
    /\ has_header = FALSE
    /\ file_index = 0
    /\ reader = <<>>
    /\ current_entry = PoEntry_default
    /\ state = "None"
    /\ line_number = 0
    /\ merge_result = "none"
    /\ ConvIdle
    /\ arg = <<>>
    /\ ret = <<>>
    /\ csv = CsvIdle

MergeNamesNext == MergeStart \/ MergeLine \/ MergeEof \/ MergeWrite \/ MergeValidate

SpecMergeNames == MergeNamesInit /\ [][MergeNamesNext]_vars

\* C25: an entry stored from a later source is never protected as an entry of
\* the main source: with ignore_main_entries = TRUE, a key that the first
\* source does not hold and that each later source holds at most once, never
\* fuzzy, is carried with the translation of the last source that holds it,
\* whatever the file names of the sources.
C25_OnlyFirstSourceProtected ==
    (MergedWritten /\ ignore_main_entries) =>
        \A key \in OrdinaryKeys :
            (/\ 0 \notin SourcesOf(key)
             /\ OncePerSource(key)
             /\ \A n \in 1..Len(OccOf(key)) : ~OccOf(key)[n].e.fuzzy)
                => Carries(OccOf(key)[Len(OccOf(key))])

\* The texts merge_po_files can write for the entries it holds, one for every
\* order that the iteration of the map and the stable sort on msgid can give
MergedTexts ==
    { write_header(has_header, header)
      \o concat([i \in 1..Len(sorted_entries) |-> write_entry(sorted_entries[i])]) :
        sorted_entries \in sorted_orders(entries) }

\* C26: for given inputs the text merge emits is the same on every run: once
\* the inputs are read, one text only can be written, also when entries share
\* a msgid and differ in context.
C26_OneEmittedText ==
    pc = "merge_write" => Cardinality(MergedTexts) = 1

(***************************************************************************)
(* Merging, as the only source, a file that merge's own write_entry wrote  *)
(* for one entry with msgid "a" and a msgstr arg of up to MaxLen           *)
(* characters over line feed, quote, backslash and a letter.               *)
(***************************************************************************)
ReparseAlphabet == {cLF, cQUOTE, cBSLASH, 120}                       \* 120: "x"

ReparseInit ==
    /\ arg \in StringsOver(ReparseAlphabet, MaxLen)
    /\ ret = <<>>
    /\ fs = [p \in {SourcePath(0), merged_path} |->
               IF p = merged_path THEN NoFile
               ELSE FileOf(write_entry([PoEntry_default EXCEPT !.msgid = str_a,
                                                               !.msgstr = arg]))]
    /\ input_files = <<SourcePath(0)>>
    /\ ignore_main_entries \in BOOLEAN
    /\ catalogs = <<>>
    /\ pc = "merge_start"
    /\ entries = {}
    /\ header = <<>>
    /\ has_header = FALSE
    /\ file_index = 0
    /\ reader = <<>>
    /\ current_entry = PoEntry_default
    /\ state = "None"
    /\ line_number = 0
    /\ merge_result = "none"
    /\ ConvIdle
    /\ csv = CsvIdle

ReparseNext == MergeStart \/ MergeLine \/ MergeEof \/ MergeWrite \/ MergeValidate

SpecReparse == ReparseInit /\ [][ReparseNext]_vars

\* C27: the merge parser applied to what write_po_string wrote for a string
\* gives the string: once the written file is read, the entry "a" holds the
\* msgstr arg that was written, line feeds included.
C27_ReparseGivesString ==
    pc \in {"merge_write", "merge_validate"} =>
        \E e \in entries : e.msgid = str_a /\ e.msgstr = arg

\* C28: when every input file was parsed and the output was written, the
\* validation of the written text succeeds and the merge returns Ok.
C28_WrittenOutputIsValid ==
    (MergedWritten /\ pc = "done") => merge_result = "Ok"

\* C29: merge_po_files ends with Ok or Err on every input text and never
\* terminates abnormally, also on a keyword line whose string part is a single
\* double quote.
C29_MergeNeverPanics ==
    merge_result \in {"none", "Ok", "Err"}

\* C30: when convert_mo_to_po returns an error caused by the content of the MO
\* file, the output path has not been created.
C30_ErrorLeavesNoOutput ==
    mo_result = "Err" => ~fs[po_out_path].exists

=============================================================================
